---- MODULE Spec2Model ----
(***************************************************************************)
(* Model of mhpenta/minimcp, package safeunmarshal: the resilient decode   *)
(* pipeline (ToWithOptions, prepareJSONForUnmarshalling, repairJSON and    *)
(* its rewrite stages) together with the parts of encoding/json it calls;  *)
(* and of package mcp: the tools/call handler with TypedTool.Execute       *)
(* (SpecRPC) and the stdio transport with HandleMessage (SpecStdio, and    *)
(* SpecStdioFair with its scanner goroutine scheduled).  SpecStages runs   *)
(* the rewrite stages of repairJSON one statement at a time.               *)
(*                                                                         *)
(* A text is a sequence of one-character strings.  Every function of the   *)
(* package is an operator computed the way the Go code computes it; the    *)
(* regular expressions are hand-compiled matchers with Go's leftmost-first *)
(* semantics.                                                              *)
(***************************************************************************)
EXTENDS Integers, Sequences, FiniteSets, TLC

VARIABLES raw, op, T, opts, out, request, exec, stdin, read, stdout, pc, scanner

\* the variables of the tools/call handler
rpcVars == <<request, exec>>

\* the variables of StdioTransport.Start
stdioVars == <<stdin, read, stdout, pc, scanner>>

\* the variables of the decode pipeline and of the tools/call handler
callVars == <<raw, op, T, opts, out, request, exec>>

vars == <<raw, op, T, opts, out, request, exec, stdin, read, stdout, pc, scanner>>

(***************************************************************************)
(* Characters                                                              *)
(***************************************************************************)
LowerLetters ==
    <<"a","b","c","d","e","f","g","h","i","j","k","l","m",
      "n","o","p","q","r","s","t","u","v","w","x","y","z">>

UpperLetters ==
    <<"A","B","C","D","E","F","G","H","I","J","K","L","M",
      "N","O","P","Q","R","S","T","U","V","W","X","Y","Z">>

DigitChars == <<"0","1","2","3","4","5","6","7","8","9">>

Range(f) == {f[i] : i \in DOMAIN f}

Letters == Range(LowerLetters) \cup Range(UpperLetters)

Digits == Range(DigitChars)

\* regexp \w
WordChars == Letters \cup Digits \cup {"_"}

\* regexp \s  ==  [\t\n\f\r ]
RegexSpace == {" ", "\t", "\n", "\r", "\f"}

\* unicode.IsSpace restricted to the characters a TLA+ string can name
GoSpace == {" ", "\t", "\n", "\r", "\f"}

\* encoding/json isSpace
JSONSpace == {" ", "\t", "\n", "\r"}

\* bytes below 0x20, which a JSON string literal may not contain
ControlChars == {"\t", "\n", "\r", "\f"}

HexChars == Digits \cup {"a","b","c","d","e","f","A","B","C","D","E","F"}

\* strings.ToLower on one character
ToLowerChar(c) ==
    IF \E i \in 1..26 : UpperLetters[i] = c
    THEN LowerLetters[CHOOSE i \in 1..26 : UpperLetters[i] = c]
    ELSE c

ToLower(s) == [i \in 1..Len(s) |-> ToLowerChar(s[i])]

(***************************************************************************)
(* strings / bytes helpers                                                 *)
(***************************************************************************)
\* s[i..] as a new text (Go s[i-1:])
From(s, i) == SubSeq(s, i, Len(s))

\* strings.HasPrefix
HasPrefix(s, p) == Len(s) >= Len(p) /\ SubSeq(s, 1, Len(p)) = p

\* strings.HasSuffix
HasSuffix(s, p) == Len(s) >= Len(p) /\ SubSeq(s, Len(s) - Len(p) + 1, Len(s)) = p

\* does p occur in s at position i
OccursAt(s, p, i) ==
    i >= 1 /\ i + Len(p) - 1 <= Len(s) /\ \A k \in 1..Len(p) : s[i + k - 1] = p[k]

\* strings.Contains
Contains(s, p) == \E i \in 1..(Len(s) - Len(p) + 1) : OccursAt(s, p, i)

\* strings.Count for a one-character pattern
Count(s, c) == Cardinality({i \in 1..Len(s) : s[i] = c})

\* strings.TrimPrefix / strings.TrimSuffix
TrimPrefix(s, p) == IF HasPrefix(s, p) THEN From(s, Len(p) + 1) ELSE s

TrimSuffix(s, p) == IF HasSuffix(s, p) THEN SubSeq(s, 1, Len(s) - Len(p)) ELSE s

\* strings.TrimSpace / bytes.TrimSpace
TrimSpace(s) ==
    LET keep == {i \in 1..Len(s) : s[i] \notin GoSpace}
    IN  IF keep = {} THEN <<>>
        ELSE SubSeq(s, CHOOSE i \in keep : \A j \in keep : i <= j,
                       CHOOSE i \in keep : \A j \in keep : i >= j)

\* bytes.ReplaceAll(data, "\n", "")
RECURSIVE DropNewlines(_)
DropNewlines(s) ==
    IF s = <<>> THEN <<>>
    ELSE IF Head(s) = "\n" THEN DropNewlines(Tail(s))
         ELSE <<Head(s)>> \o DropNewlines(Tail(s))

\* index just past the run of characters of set cls that starts at i
RECURSIVE RunEnd(_, _, _)
RunEnd(s, i, cls) ==
    IF i <= Len(s) /\ s[i] \in cls THEN RunEnd(s, i + 1, cls) ELSE i

(***************************************************************************)
(* encoding/json: the scanner (json.Valid), json.Compact and json.Unmarshal*)
(* A parsed value is a pair <<kind, payload>>:                             *)
(*   <<"null", 0>>  <<"bool", b>>  <<"num", lexeme>>  <<"str", chars>>     *)
(*   <<"arr", <<v1, ..>>>>  <<"obj", << <<key1, v1>>, .. >>>>              *)
(* A number keeps its lexeme (no stage rewrites the inside of a number).   *)
(***************************************************************************)
ParseFail == [ok |-> FALSE, pos |-> 0, val |-> <<"null", 0>>]

ParseOk(p, v) == [ok |-> TRUE, pos |-> p, val |-> v]

SkipWs(s, i) == RunEnd(s, i, JSONSpace)

SimpleEscapes == {"\"", "\\", "/", "b", "f", "n", "r", "t"}

\* the character an escape sequence \c stands for ("\\b" names backspace)
Unescape(c) ==
    CASE c = "b" -> "\\b"
      [] c = "f" -> "\f"
      [] c = "n" -> "\n"
      [] c = "r" -> "\r"
      [] c = "t" -> "\t"
      [] OTHER   -> c

\* the body of a string literal from position j (just after the opening quote);
\* a \uXXXX escape is kept as the token "\\u" followed by its four hex digits
RECURSIVE StrBody(_, _, _)
StrBody(s, j, acc) ==
    IF j > Len(s) THEN ParseFail
    ELSE IF s[j] = "\"" THEN ParseOk(j + 1, <<"str", acc>>)
    ELSE IF s[j] = "\\" THEN
        IF j + 1 > Len(s) THEN ParseFail
        ELSE IF s[j + 1] \in SimpleEscapes
             THEN StrBody(s, j + 2, Append(acc, Unescape(s[j + 1])))
        ELSE IF s[j + 1] = "u" /\ j + 5 <= Len(s)
                /\ \A k \in 2..5 : s[j + k] \in HexChars
             THEN StrBody(s, j + 6, acc \o <<"\\u">> \o SubSeq(s, j + 2, j + 5))
        ELSE ParseFail
    ELSE IF s[j] \in ControlChars THEN ParseFail
    ELSE StrBody(s, j + 1, Append(acc, s[j]))

\* index just past the digits that start at p, 0 if there is none
DigitsEnd(s, p) == IF RunEnd(s, p, Digits) > p THEN RunEnd(s, p, Digits) ELSE 0

\* index just past the integer part that starts at a: "0" or digits
IntPartEnd(s, a) ==
    IF a <= Len(s) /\ s[a] = "0" THEN a + 1 ELSE DigitsEnd(s, a)

\* index just past the optional fraction after the integer part that ends at e
FracEnd(s, e) ==
    IF e = 0 THEN 0
    ELSE IF e <= Len(s) /\ s[e] = "." THEN DigitsEnd(s, e + 1)
    ELSE e

\* index just past the optional exponent after the fraction that ends at f
ExpEnd(s, f) ==
    IF f = 0 THEN 0
    ELSE IF f <= Len(s) /\ s[f] \in {"e", "E"}
         THEN DigitsEnd(s, IF f + 1 <= Len(s) /\ s[f + 1] \in {"+", "-"}
                           THEN f + 2 ELSE f + 1)
    ELSE f

\* index just past the number that starts at i, 0 if there is none
NumEnd(s, i) ==
    ExpEnd(s, FracEnd(s, IntPartEnd(s, IF i <= Len(s) /\ s[i] = "-" THEN i + 1 ELSE i)))

\* the number from i to just before e, no number if e is 0
NumberAt(s, i, e) ==
    IF e # 0 THEN ParseOk(e, <<"num", SubSeq(s, i, e - 1)>>) ELSE ParseFail

RECURSIVE ParseValue(_, _)
RECURSIVE ParseElems(_, _, _)
RECURSIVE ParseMembers(_, _, _)

\* after an array element: "," and the next element, or the closing bracket
ElemsSep(s, j, acc) ==
    IF j > Len(s) THEN ParseFail
    ELSE IF s[j] = "," THEN ParseElems(s, j + 1, acc)
    ELSE IF s[j] = "]" THEN ParseOk(j + 1, <<"arr", acc>>)
    ELSE ParseFail

\* the array element v is added to the elements read so far
ElemsAfter(s, v, acc) ==
    IF ~v.ok THEN ParseFail ELSE ElemsSep(s, SkipWs(s, v.pos), Append(acc, v.val))

\* array elements from position i (at the start of an element)
ParseElems(s, i, acc) == ElemsAfter(s, ParseValue(s, SkipWs(s, i)), acc)

\* after an object member: "," and the next member, or the closing brace
MemberSep(s, j, acc) ==
    IF j > Len(s) THEN ParseFail
    ELSE IF s[j] = "," THEN ParseMembers(s, j + 1, acc)
    ELSE IF s[j] = "}" THEN ParseOk(j + 1, <<"obj", acc>>)
    ELSE ParseFail

\* the member of key name and value v is added to the members read so far
MemberAfter(s, name, v, acc) ==
    IF ~v.ok THEN ParseFail
    ELSE MemberSep(s, SkipWs(s, v.pos), Append(acc, <<name, v.val>>))

\* the colon at c and the value of the member of key name
MemberValue(s, name, c, acc) ==
    IF c > Len(s) THEN ParseFail
    ELSE IF s[c] # ":" THEN ParseFail
    ELSE MemberAfter(s, name, ParseValue(s, SkipWs(s, c + 1)), acc)

\* the member whose key literal has been read as key
MemberKey(s, key, acc) ==
    IF ~key.ok THEN ParseFail ELSE MemberValue(s, key.val[2], SkipWs(s, key.pos), acc)

\* the member that starts at k, which must hold the opening quote of its key
MemberAt(s, k, acc) ==
    IF k <= Len(s) /\ s[k] = "\"" THEN MemberKey(s, StrBody(s, k + 1, <<>>), acc)
    ELSE ParseFail

\* object members from position i (at the start of a key)
ParseMembers(s, i, acc) == MemberAt(s, SkipWs(s, i), acc)

\* one JSON value starting exactly at position i
ParseValue(s, i) ==
    IF i > Len(s) THEN ParseFail
    ELSE IF s[i] = "{" THEN
        IF SkipWs(s, i + 1) <= Len(s) /\ s[SkipWs(s, i + 1)] = "}"
        THEN ParseOk(SkipWs(s, i + 1) + 1, <<"obj", <<>>>>)
        ELSE ParseMembers(s, i + 1, <<>>)
    ELSE IF s[i] = "[" THEN
        IF SkipWs(s, i + 1) <= Len(s) /\ s[SkipWs(s, i + 1)] = "]"
        THEN ParseOk(SkipWs(s, i + 1) + 1, <<"arr", <<>>>>)
        ELSE ParseElems(s, i + 1, <<>>)
    ELSE IF s[i] = "\"" THEN StrBody(s, i + 1, <<>>)
    ELSE IF OccursAt(s, <<"t","r","u","e">>, i) THEN ParseOk(i + 4, <<"bool", TRUE>>)
    ELSE IF OccursAt(s, <<"f","a","l","s","e">>, i) THEN ParseOk(i + 5, <<"bool", FALSE>>)
    ELSE IF OccursAt(s, <<"n","u","l","l">>, i) THEN ParseOk(i + 4, <<"null", 0>>)
    ELSE NumberAt(s, i, NumEnd(s, i))

\* the value v is the whole text: only white space follows it
WholeDocument(s, v) ==
    IF ~v.ok THEN ParseFail
    ELSE IF SkipWs(s, v.pos) = Len(s) + 1 THEN v
    ELSE ParseFail

\* the whole text as one JSON document: a value between optional whitespace
ParseJSON(s) == WholeDocument(s, ParseValue(s, SkipWs(s, 1)))

\* json.Valid
Valid(s) == ParseJSON(s).ok

\* json.Compact on valid JSON: whitespace outside string literals is dropped
RECURSIVE CompactFrom(_, _, _, _)
CompactFrom(s, i, inStr, esc) ==
    IF i > Len(s) THEN <<>>
    ELSE IF inStr THEN
        <<s[i]>> \o CompactFrom(s, i + 1, esc \/ s[i] # "\"", ~esc /\ s[i] = "\\")
    ELSE IF s[i] \in JSONSpace THEN CompactFrom(s, i + 1, FALSE, FALSE)
    ELSE <<s[i]>> \o CompactFrom(s, i + 1, s[i] = "\"", FALSE)

Compact(s) == CompactFrom(s, 1, FALSE, FALSE)

(***************************************************************************)
(* json.Unmarshal into the target types the package's tests decode into:   *)
(*   "Person"   struct { Name string `json:"name"`; Age int `json:"age"` } *)
(*   "String"   string                                                     *)
(*   "IntSlice" []int                                                      *)
(*   "Any"      interface{}                                                *)
(***************************************************************************)
Types == {"Person", "String", "IntSlice", "Any"}

\* reflect.Kind is Array or Slice
IsArrayKind(t) == t = "IntSlice"

\* var zero T
Zero(t) ==
    CASE t = "Person"   -> [name |-> <<>>, age |-> 0]
      [] t = "String"   -> <<>>
      [] t = "IntSlice" -> <<TRUE, <<>>>>
      [] t = "Any"      -> <<"null", 0>>

\* the lexeme is an optional minus sign and digits only (strconv.ParseInt accepts it)
IsIntLex(lex) ==
    LET a == IF lex # <<>> /\ lex[1] = "-" THEN 2 ELSE 1
    IN  a <= Len(lex) /\ \A i \in a..Len(lex) : lex[i] \in Digits

DigitVal(c) == (CHOOSE i \in 1..10 : DigitChars[i] = c) - 1

RECURSIVE NatOfDigits(_)
NatOfDigits(ds) ==
    IF ds = <<>> THEN 0
    ELSE 10 * NatOfDigits(SubSeq(ds, 1, Len(ds) - 1)) + DigitVal(ds[Len(ds)])

IntOfLex(lex) ==
    IF lex[1] = "-" THEN 0 - NatOfDigits(Tail(lex)) ELSE NatOfDigits(lex)

\* the value decoded into interface{}: an object becomes a map (the last of
\* duplicate keys wins, order is lost)
RECURSIVE AnyVal(_)
AnyVal(v) ==
    CASE v[1] = "arr" -> <<"arr", [i \in 1..Len(v[2]) |-> AnyVal(v[2][i])]>>
      [] v[1] = "obj" ->
            LET ms == v[2]
                last(k) == CHOOSE i \in 1..Len(ms) :
                               ms[i][1] = k /\ \A j \in (i + 1)..Len(ms) : ms[j][1] # k
            IN  <<"obj", [k \in {ms[i][1] : i \in 1..Len(ms)} |-> AnyVal(ms[last(k)][2])]>>
      [] OTHER -> v

DecodeOk(x) == [err |-> "none", val |-> x]

DecodeTypeErr(t) == [err |-> "type", val |-> Zero(t)]

\* []int: every element a number that is an integer, or null (left zero)
IntSliceOf(v) ==
    IF v[1] = "null" THEN DecodeOk(Zero("IntSlice"))
    ELSE IF v[1] # "arr" THEN DecodeTypeErr("IntSlice")
    ELSE IF \A i \in 1..Len(v[2]) :
               \/ v[2][i][1] = "null"
               \/ v[2][i][1] = "num" /\ IsIntLex(v[2][i][2])
         THEN DecodeOk(<<FALSE, [i \in 1..Len(v[2]) |->
                  IF v[2][i][1] = "null" THEN 0 ELSE IntOfLex(v[2][i][2])]>>)
    ELSE DecodeTypeErr("IntSlice")

\* struct Person: members are taken in order, a key selects a field by its
\* json name compared case-insensitively, unknown keys are skipped
RECURSIVE PersonFrom(_, _, _)
PersonFrom(ms, i, acc) ==
    IF i > Len(ms) THEN DecodeOk(acc)
    ELSE LET k == ToLower(ms[i][1])
             v == ms[i][2]
         IN  IF k = <<"n","a","m","e">> THEN
                 IF v[1] = "str" THEN PersonFrom(ms, i + 1, [acc EXCEPT !.name = v[2]])
                 ELSE IF v[1] = "null" THEN PersonFrom(ms, i + 1, acc)
                 ELSE DecodeTypeErr("Person")
             ELSE IF k = <<"a","g","e">> THEN
                 IF v[1] = "num" /\ IsIntLex(v[2])
                 THEN PersonFrom(ms, i + 1, [acc EXCEPT !.age = IntOfLex(v[2])])
                 ELSE IF v[1] = "null" THEN PersonFrom(ms, i + 1, acc)
                 ELSE DecodeTypeErr("Person")
             ELSE PersonFrom(ms, i + 1, acc)

\* the decoder proper, on a parsed document
DecodeValue(v, t) ==
    CASE t = "Any" -> DecodeOk(AnyVal(v))
      [] t = "String" ->
            IF v[1] = "str" THEN DecodeOk(v[2])
            ELSE IF v[1] = "null" THEN DecodeOk(Zero(t))
            ELSE DecodeTypeErr(t)
      [] t = "IntSlice" -> IntSliceOf(v)
      [] t = "Person" ->
            IF v[1] = "obj" THEN PersonFrom(v[2], 1, Zero(t))
            ELSE IF v[1] = "null" THEN DecodeOk(Zero(t))
            ELSE DecodeTypeErr(t)

\* the decoding of the parsed document p: a syntax error before anything is
\* stored, else the decode
Decode(p, t) ==
    IF ~p.ok THEN [err |-> "syntax", val |-> Zero(t)] ELSE DecodeValue(p.val, t)

\* json.Unmarshal(data, &response); err is "none", "syntax" or "type"
Unmarshal(data, t) == Decode(ParseJSON(data), t)

(***************************************************************************)
(* safeunmarshal: extraction                                               *)
(***************************************************************************)
\* isJSONArray: the first byte that is not ' ', '\t', '\n', '\r' is '['
isJSONArray(data) ==
    LET i == RunEnd(data, 1, JSONSpace)
    IN  i <= Len(data) /\ data[i] = "["

\* one of the two scans of prepareJSONForUnmarshalling: count opens and closes
\* of one kind from the start of data; the span from the first opener to the
\* closer at which the count is back to zero, <<>> if the loop ends without
RECURSIVE SpanScan(_, _, _, _, _, _)
SpanScan(data, i, opener, closer, startIndex, count) ==
    IF i > Len(data) THEN <<>>
    ELSE IF data[i] = opener
         THEN SpanScan(data, i + 1, opener, closer,
                       IF startIndex = 0 THEN i ELSE startIndex, count + 1)
    ELSE IF data[i] = closer
         THEN IF count - 1 = 0 /\ startIndex # 0 THEN SubSeq(data, startIndex, i)
              ELSE SpanScan(data, i + 1, opener, closer, startIndex, count - 1)
    ELSE SpanScan(data, i + 1, opener, closer, startIndex, count)

\* a test of the first character alone
IsCompleteByOpener(trimmedData) ==
    trimmedData[1] = "{" \/ trimmedData[1] = "[" \/ trimmedData[1] = "\""

\* the trimmed text is returned without a span search
IsComplete(trimmedData) ==
    \/ trimmedData[1] = "{" /\ trimmedData[Len(trimmedData)] = "}"
    \/ trimmedData[1] = "[" /\ trimmedData[Len(trimmedData)] = "]"

\* an extractor that hands the trimmed text on when it finds no span
prepareJSONForUnmarshallingOrText(data) ==
    LET trimmedData == TrimSpace(data)
        object == SpanScan(data, 1, "{", "}", 0, 0)
        array == SpanScan(data, 1, "[", "]", 0, 0)
    IN  IF Len(trimmedData) = 0 THEN <<>>
        ELSE IF IsComplete(trimmedData) THEN trimmedData
        ELSE IF object # <<>> THEN object
        ELSE IF array # <<>> THEN array
        ELSE trimmedData

prepareJSONForUnmarshalling(data) ==
    LET trimmedData == TrimSpace(data)
        object == SpanScan(data, 1, "{", "}", 0, 0)
    IN  IF Len(trimmedData) = 0 THEN <<>>
        ELSE IF IsComplete(trimmedData) THEN trimmedData
        ELSE IF object # <<>> THEN object
        ELSE SpanScan(data, 1, "[", "]", 0, 0)

\* the return statement prepareJSONForUnmarshalling leaves through: "empty" and
\* "complete" come before the two scans, "search" after them
ExtractorBranch(data) ==
    IF Len(TrimSpace(data)) = 0 THEN "empty"
    ELSE IF IsComplete(TrimSpace(data)) THEN "complete"
    ELSE "search"

(***************************************************************************)
(* safeunmarshal: the rewrite stages of repairJSON                         *)
(***************************************************************************)
\* replaceQuotes: the loop over the bytes of s with its inString and escape flags
RECURSIVE replaceQuotesFrom(_, _, _, _)
replaceQuotesFrom(s, i, inString, escape) ==
    IF i > Len(s) THEN <<>>
    ELSE IF escape THEN <<s[i]>> \o replaceQuotesFrom(s, i + 1, inString, FALSE)
    ELSE IF s[i] = "\\" THEN <<s[i]>> \o replaceQuotesFrom(s, i + 1, inString, TRUE)
    ELSE IF s[i] = "\"" THEN <<s[i]>> \o replaceQuotesFrom(s, i + 1, ~inString, FALSE)
    ELSE IF s[i] = "'" THEN <<"\"">> \o replaceQuotesFrom(s, i + 1, ~inString, FALSE)
    ELSE <<s[i]>> \o replaceQuotesFrom(s, i + 1, inString, FALSE)

replaceQuotes(s) == replaceQuotesFrom(s, 1, FALSE, FALSE)

\* balanceBrackets: the stack left by the scan of s
RECURSIVE BracketStack(_, _, _)
BracketStack(s, i, stack) ==
    IF i > Len(s) THEN stack
    ELSE LET c == s[i]
             n == Len(stack)
         IN  IF c = "{" \/ c = "[" THEN BracketStack(s, i + 1, Append(stack, c))
             ELSE IF c = "}" /\ n > 0 /\ stack[n] = "{"
                  THEN BracketStack(s, i + 1, SubSeq(stack, 1, n - 1))
             ELSE IF c = "]" /\ n > 0 /\ stack[n] = "["
                  THEN BracketStack(s, i + 1, SubSeq(stack, 1, n - 1))
             ELSE BracketStack(s, i + 1, stack)

\* a balancing that appends the closers in the order of their openers
balanceBracketsInOrder(s) ==
    LET stack == BracketStack(s, 1, <<>>)
        n == Len(stack)
    IN  s \o [k \in 1..n |-> IF stack[k] = "{" THEN "}" ELSE "]"]

balanceBrackets(s) ==
    LET stack == BracketStack(s, 1, <<>>)
        n == Len(stack)
    IN  s \o [k \in 1..n |-> IF stack[n + 1 - k] = "{" THEN "}" ELSE "]"]

(***************************************************************************)
(* The regular expressions, anchored at position i.  NoMatch, or the index *)
(* just past the match and the text that ReplaceAll puts in its place.     *)
(***************************************************************************)
NoMatch == [e |-> 0, rep |-> <<>>]

Match(end, rep) == [e |-> end, rep |-> rep]

\* index of the first double quote at or after i, 0 if there is none
RECURSIVE NextQuote(_, _)
NextQuote(s, i) ==
    IF i > Len(s) THEN 0 ELSE IF s[i] = "\"" THEN i ELSE NextQuote(s, i + 1)

\* the tail (\s*[,}]|\s*$) from position k: index just past it, 0 if no match
TailEnd(s, k) ==
    LET m == RunEnd(s, k, RegexSpace)
    IN  IF m <= Len(s) /\ s[m] \in {",", "}"} THEN m + 1
        ELSE IF m = Len(s) + 1 THEN m
        ELSE 0

\* the literal of (?i)(true|false|null) at position j, <<>> if none
LiteralAt(s, j) ==
    IF OccursAt(ToLower(s), <<"t","r","u","e">>, j) THEN <<"t","r","u","e">>
    ELSE IF OccursAt(ToLower(s), <<"f","a","l","s","e">>, j) THEN <<"f","a","l","s","e">>
    ELSE IF OccursAt(ToLower(s), <<"n","u","l","l">>, j) THEN <<"n","u","l","l">>
    ELSE <<>>

\* ellipsisRe  \s*\.\.\.   replaced by ""
ellipsisRe(s, i) ==
    LET j == RunEnd(s, i, RegexSpace)
    IN  IF OccursAt(s, <<".", ".", ".">>, j) THEN Match(j + 3, <<>>) ELSE NoMatch

\* apostropheRe  \\'t   replaced by 't
apostropheRe(s, i) ==
    IF OccursAt(s, <<"\\", "'", "t">>, i) THEN Match(i + 3, <<"'", "t">>) ELSE NoMatch

\* trailingCommaBraceRe  ,\s*}   replaced by }
trailingCommaBraceRe(s, i) ==
    LET j == RunEnd(s, i + 1, RegexSpace)
    IN  IF s[i] = "," /\ j <= Len(s) /\ s[j] = "}" THEN Match(j + 1, <<"}">>) ELSE NoMatch

\* trailingCommaBracketRe  ,\s*]   replaced by ]
trailingCommaBracketRe(s, i) ==
    LET j == RunEnd(s, i + 1, RegexSpace)
    IN  IF s[i] = "," /\ j <= Len(s) /\ s[j] = "]" THEN Match(j + 1, <<"]">>) ELSE NoMatch

\* unquotedKeyRe  ([{,]\s*)([a-zA-Z0-9_]+)(\s*:)   replaced by ${1}"${2}"${3}
unquotedKeyRe(s, i) ==
    LET j == RunEnd(s, i + 1, RegexSpace)
        k == RunEnd(s, j, WordChars)
        m == RunEnd(s, k, RegexSpace)
    IN  IF s[i] \in {"{", ","} /\ k > j /\ m <= Len(s) /\ s[m] = ":"
        THEN Match(m + 1, SubSeq(s, i, j - 1) \o <<"\"">> \o SubSeq(s, j, k - 1)
                          \o <<"\"">> \o SubSeq(s, k, m))
        ELSE NoMatch

\* boolNullRe  (?i):\s*(true|false|null)(\s*[,}]|\s*$)   with the replacement
\* function of fixUnquotedValues: the literal in the match is put in lower case
boolNullRe(s, i) ==
    LET j == RunEnd(s, i + 1, RegexSpace)
        lit == LiteralAt(s, j)
        k == j + Len(lit)
        e == TailEnd(s, k)
    IN  IF s[i] = ":" /\ lit # <<>> /\ e # 0
        THEN Match(e, SubSeq(s, i, j - 1) \o lit \o SubSeq(s, k, e - 1))
        ELSE NoMatch

\* unquotedValueRe  (:\s*)([a-zA-Z][a-zA-Z0-9_]*)(\s*[,}]|\s*$)   with process:
\* a match that holds ": true", ": false" or ": null" in lower case is kept,
\* any other has its identifier wrapped in double quotes
unquotedValueRe(s, i) ==
    LET j == RunEnd(s, i + 1, RegexSpace)
        k == RunEnd(s, j, WordChars)
        e == TailEnd(s, k)
        match == SubSeq(s, i, e - 1)
        matchLower == ToLower(match)
    IN  IF s[i] = ":" /\ j <= Len(s) /\ s[j] \in Letters /\ e # 0
        THEN IF \/ Contains(matchLower, <<":", " ", "t","r","u","e">>)
                \/ Contains(matchLower, <<":", " ", "f","a","l","s","e">>)
                \/ Contains(matchLower, <<":", " ", "n","u","l","l">>)
             THEN Match(e, match)
             ELSE Match(e, SubSeq(s, i, j - 1) \o <<"\"">> \o SubSeq(s, j, k - 1)
                           \o <<"\"">> \o SubSeq(s, k, e - 1))
        ELSE NoMatch

\* unquotedValueEndRe  :\s*([a-zA-Z][a-zA-Z0-9_]*)$   replaced by : "$1"
unquotedValueEndRe(s, i) ==
    LET j == RunEnd(s, i + 1, RegexSpace)
        k == RunEnd(s, j, WordChars)
    IN  IF s[i] = ":" /\ j <= Len(s) /\ s[j] \in Letters /\ k = Len(s) + 1
        THEN Match(k, <<":", " ", "\"">> \o SubSeq(s, j, k - 1) \o <<"\"">>)
        ELSE NoMatch

\* one operand ("[^"]*"|\d+|\w+) of arrayMissingCommaRe at position i: index
\* just past it, 0 if none.  mustReachSpace: the operand is followed by \s+,
\* so a run of digits or word characters is taken whole
ElementEnd(s, i, mustReachSpace) ==
    IF i > Len(s) THEN 0
    ELSE IF s[i] = "\"" THEN
        IF NextQuote(s, i + 1) = 0 THEN 0 ELSE NextQuote(s, i + 1) + 1
    ELSE IF s[i] \in Digits /\ ~mustReachSpace THEN RunEnd(s, i, Digits)
    ELSE IF s[i] \in WordChars THEN RunEnd(s, i, WordChars)
    ELSE 0

\* arrayMissingCommaRe  ("[^"]*"|\d+|\w+)\s+("[^"]*"|\d+|\w+)   replaced by $1,$2
arrayMissingCommaRe(s, i) ==
    LET a == ElementEnd(s, i, TRUE)
        w == RunEnd(s, a, RegexSpace)
        b == ElementEnd(s, w, FALSE)
    IN  IF a # 0 /\ w > a /\ b # 0
        THEN Match(b, SubSeq(s, i, a - 1) \o <<",">> \o SubSeq(s, w, b - 1))
        ELSE NoMatch

MatchAt(re, s, i) ==
    CASE re = "ellipsisRe"             -> ellipsisRe(s, i)
      [] re = "apostropheRe"           -> apostropheRe(s, i)
      [] re = "trailingCommaBraceRe"   -> trailingCommaBraceRe(s, i)
      [] re = "trailingCommaBracketRe" -> trailingCommaBracketRe(s, i)
      [] re = "unquotedKeyRe"          -> unquotedKeyRe(s, i)
      [] re = "boolNullRe"             -> boolNullRe(s, i)
      [] re = "unquotedValueRe"        -> unquotedValueRe(s, i)
      [] re = "unquotedValueEndRe"     -> unquotedValueEndRe(s, i)
      [] re = "arrayMissingCommaRe"    -> arrayMissingCommaRe(s, i)

\* the matches of re that begin at or after position i, each with its position
MatchesFrom(re, s, i) ==
    {mm \in {[at |-> j, m |-> MatchAt(re, s, j)] : j \in i..Len(s)} : mm.m.e # 0}

\* the leftmost of a non-empty set of matches
Leftmost(ms) == CHOOSE mm \in ms : \A other \in ms : mm.at <= other.at

\* Regexp.ReplaceAllString / ReplaceAllStringFunc: the matches are found left
\* to right without overlap, the text between them is copied
RECURSIVE ReplaceFrom(_, _, _)

\* the text from i with the match mm replaced, then the rest
Substitute(re, s, i, mm) ==
    SubSeq(s, i, mm.at - 1) \o mm.m.rep \o ReplaceFrom(re, s, mm.m.e)

\* the text from i with the leftmost of the matches ms, if any, replaced
SubstituteIn(re, s, i, ms) ==
    IF ms = {} THEN From(s, i) ELSE Substitute(re, s, i, Leftmost(ms))

ReplaceFrom(re, s, i) ==
    IF i > Len(s) THEN <<>> ELSE SubstituteIn(re, s, i, MatchesFrom(re, s, i))

ReplaceAll(re, s) == ReplaceFrom(re, s, 1)

\* Regexp.MatchString
MatchString(re, s) == \E i \in 1..Len(s) : MatchAt(re, s, i).e # 0

\* fixUnquotedKeys without its substitution
fixUnquotedKeysSkipped(s) == s

\* fixUnquotedKeys
fixUnquotedKeys(s) == ReplaceAll("unquotedKeyRe", s)

\* fixUnquotedValues: the three passes
fixUnquotedValues(s) ==
    ReplaceAll("unquotedValueEndRe",
        ReplaceAll("unquotedValueRe",
            ReplaceAll("boolNullRe", s)))

\* removeTrailingCommas
removeTrailingCommas(s) ==
    ReplaceAll("trailingCommaBracketRe", ReplaceAll("trailingCommaBraceRe", s))

\* index of the first character of set cls at or after i, Len(s) + 1 if none
RECURSIVE FirstOf(_, _, _)
FirstOf(s, i, cls) ==
    IF i > Len(s) \/ s[i] \in cls THEN i ELSE FirstOf(s, i + 1, cls)

NoGroup == [found |-> FALSE, g |-> <<>>]

Group(g) == [found |-> TRUE, g |-> g]

\* arrayExtractRe  \[(.*?)(?:\]|$)  FindStringSubmatch: group 1 of the leftmost
\* match; "." does not match a line feed
RECURSIVE arrayExtractRe(_, _)
arrayExtractRe(s, p) ==
    IF p > Len(s) THEN NoGroup
    ELSE LET q == FirstOf(s, p + 1, {"]", "\n"})
         IN  IF s[p] = "[" /\ (q > Len(s) \/ s[q] = "]")
             THEN Group(SubSeq(s, p + 1, q - 1))
             ELSE arrayExtractRe(s, p + 1)

\* the lazy group of trailingCommaArrayRe from position q on, the opener at p:
\* the first comma that only white space separates from "]" or the end
RECURSIVE CommaBeforeClose(_, _, _)
CommaBeforeClose(s, p, q) ==
    IF q > Len(s) THEN NoGroup
    ELSE LET m == RunEnd(s, q + 1, RegexSpace)
         IN  IF s[q] = "," /\ (m > Len(s) \/ s[m] = "]")
             THEN Group(SubSeq(s, p + 1, q - 1))
             ELSE IF s[q] = "\n" THEN NoGroup
             ELSE CommaBeforeClose(s, p, q + 1)

\* trailingCommaArrayRe  \[(.*?),\s*(?:\]|$)  FindStringSubmatch
RECURSIVE trailingCommaArrayRe(_, _)
trailingCommaArrayRe(s, p) ==
    IF p > Len(s) THEN NoGroup
    ELSE IF s[p] = "[" /\ CommaBeforeClose(s, p, p + 1).found
         THEN CommaBeforeClose(s, p, p + 1)
    ELSE trailingCommaArrayRe(s, p + 1)

\* "([^"]+)" at position i: index just past the closing quote, 0 if no match
QuotedNonEmptyEnd(s, i) ==
    IF i >= 1 /\ i <= Len(s) /\ s[i] = "\"" /\ NextQuote(s, i + 1) > i + 1
    THEN NextQuote(s, i + 1) + 1 ELSE 0

\* \s+ from position i: index just past it, 0 if there is no white space
SpacesEnd(s, i) ==
    IF i >= 1 /\ RunEnd(s, i, RegexSpace) > i THEN RunEnd(s, i, RegexSpace) ELSE 0

\* quotedStringsRe  \[\s*"([^"]+)"\s+"([^"]+)"\s+"([^"]+)"\s+(\d+)  MatchString
quotedStringsRe(s) ==
    \E p \in 1..Len(s) :
        LET a == QuotedNonEmptyEnd(s, RunEnd(s, p + 1, RegexSpace))
            b == QuotedNonEmptyEnd(s, SpacesEnd(s, a))
            c == QuotedNonEmptyEnd(s, SpacesEnd(s, b))
            d == SpacesEnd(s, c)
        IN  s[p] = "[" /\ a # 0 /\ b # 0 /\ c # 0 /\ d # 0
            /\ d <= Len(s) /\ s[d] \in Digits

\* the value ("([^"]*)"|\d+|true|false|null) of keyValPatternRe at position b
KeyValValueEnd(s, b) ==
    IF b > Len(s) THEN 0
    ELSE IF s[b] = "\"" THEN
        IF NextQuote(s, b + 1) = 0 THEN 0 ELSE NextQuote(s, b + 1) + 1
    ELSE IF s[b] \in Digits THEN RunEnd(s, b, Digits)
    ELSE IF OccursAt(s, <<"t","r","u","e">>, b) THEN b + 4
    ELSE IF OccursAt(s, <<"f","a","l","s","e">>, b) THEN b + 5
    ELSE IF OccursAt(s, <<"n","u","l","l">>, b) THEN b + 4
    ELSE 0

\* keyValPatternRe  "([^"]+)"\s*:\s*("([^"]*)"|\d+|true|false|null)
\* FindAllStringSubmatch: the pairs <<match[1], match[2]>> left to right
RECURSIVE keyValPatternRe(_, _)
keyValPatternRe(s, i) ==
    IF i > Len(s) THEN <<>>
    ELSE LET q == QuotedNonEmptyEnd(s, i)
             a == RunEnd(s, q, RegexSpace)
             b == RunEnd(s, a + 1, RegexSpace)
             e == KeyValValueEnd(s, b)
         IN  IF q # 0 /\ a <= Len(s) /\ s[a] = ":" /\ e # 0
             THEN << <<SubSeq(s, i + 1, q - 2), SubSeq(s, b, e - 1)>> >>
                  \o keyValPatternRe(s, e)
             ELSE keyValPatternRe(s, i + 1)

\* strings.Split(s, ",")
RECURSIVE SplitComma(_, _, _)
SplitComma(s, i, cur) ==
    IF i > Len(s) THEN <<cur>>
    ELSE IF s[i] = "," THEN <<cur>> \o SplitComma(s, i + 1, <<>>)
    ELSE SplitComma(s, i + 1, Append(cur, s[i]))

\* strings.Join(parts, sep)
RECURSIVE Join(_, _)
Join(parts, sep) ==
    IF parts = <<>> THEN <<>>
    ELSE IF Len(parts) = 1 THEN parts[1]
    ELSE parts[1] \o sep \o Join(Tail(parts), sep)

\* the elements of the ellipsis branch: split at commas, trimmed, empty ones dropped
RECURSIVE NonEmptyTrimmed(_)
NonEmptyTrimmed(parts) ==
    IF parts = <<>> THEN <<>>
    ELSE IF TrimSpace(Head(parts)) = <<>> THEN NonEmptyTrimmed(Tail(parts))
    ELSE <<TrimSpace(Head(parts))>> \o NonEmptyTrimmed(Tail(parts))

cleanElements(group) == NonEmptyTrimmed(SplitComma(group, 1, <<>>))

\* the object rebuilt from the matches of keyValPatternRe
RECURSIVE JoinPairs(_)
JoinPairs(matches) ==
    IF matches = <<>> THEN <<>>
    ELSE <<"\"">> \o matches[1][1] \o <<"\"", ":">> \o matches[1][2]
         \o (IF Len(matches) > 1 THEN <<",">> ELSE <<>>) \o JoinPairs(Tail(matches))

RebuildObject(matches) == <<"{">> \o JoinPairs(matches) \o <<"}">>

(***************************************************************************)
(* safeunmarshal: repairJSON.  The result is [err, text, path]: err is     *)
(* "none" or "ErrJSONRepairFailed", path names the return statement taken. *)
(***************************************************************************)
Repaired(text, path) == [err |-> "none", text |-> text, path |-> path]

EmptyStringLiteral == <<"\"", "\"">>

\* the ellipsis removal after the bracket balancing
StageEllipsis(repaired) ==
    IF Contains(repaired, <<".", ".", ".">>) THEN ReplaceAll("ellipsisRe", repaired)
    ELSE repaired

\* the comma insertion between the elements of an array
StageArrayCommas(repaired) ==
    IF HasPrefix(repaired, <<"[">>) THEN ReplaceAll("arrayMissingCommaRe", repaired)
    ELSE repaired

\* the rewrite stages in their order, each on the previous stage's output
RepairStages(src) ==
    StageArrayCommas(StageEllipsis(balanceBrackets(removeTrailingCommas(
        fixUnquotedValues(fixUnquotedKeys(replaceQuotes(src)))))))

\* the guard of the key/value reconstruction
MoreOpenersThanClosers(repaired) ==
    /\ HasPrefix(repaired, <<"{">>)
    /\ \/ Count(repaired, "{") > Count(repaired, "}")
       \/ Count(repaired, "[") > Count(repaired, "]")

\* the object rebuilt from the matches, or the text itself without a match
RebuiltFrom(matches, repaired) ==
    IF matches # <<>> THEN RebuildObject(matches) ELSE repaired

\* the key/value reconstruction of a text that is not valid
Rebuild(repaired) ==
    IF MoreOpenersThanClosers(repaired)
    THEN RebuiltFrom(keyValPatternRe(repaired, 1), repaired)
    ELSE repaired

\* a last resort that gives up on a text that begins with "["
RepairFallbackObjectOnly(repaired) ==
    IF Valid(repaired) THEN Repaired(Compact(repaired), "rebuilt")
    ELSE IF HasPrefix(repaired, <<"{">>) THEN Repaired(<<"{", "}">>, "fallback")
    ELSE [err |-> "ErrJSONRepairFailed", text |-> <<>>, path |-> "failed"]

\* the last validity test and the empty structures of the last resort
RepairFallback(repaired) ==
    IF Valid(repaired) THEN Repaired(Compact(repaired), "rebuilt")
    ELSE IF HasPrefix(repaired, <<"{">>) THEN Repaired(<<"{", "}">>, "fallback")
    ELSE IF HasPrefix(repaired, <<"[">>) THEN Repaired(<<"[", "]">>, "fallback")
    ELSE [err |-> "ErrJSONRepairFailed", text |-> <<>>, path |-> "failed"]

\* from the validity test after the stages to the end of repairJSON
RepairStaged(repaired) ==
    IF Valid(repaired) THEN Repaired(Compact(repaired), "stages")
    ELSE RepairFallback(Rebuild(repaired))

\* the two-character prefixes, then the stages
RepairShort(src) ==
    IF HasPrefix(src, <<"{", "\"">>) /\ Len(src) <= 2 THEN Repaired(<<"{", "}">>, "short")
    ELSE IF HasPrefix(src, <<"[", "\"">>) /\ Len(src) <= 2
    THEN Repaired(<<"[", "]">>, "short")
    ELSE RepairStaged(RepairStages(src))

\* from the trailing-comma array branch to the rewrite stages
RepairArrayPaths(src) ==
    LET tc == trailingCommaArrayRe(src, 1)
    IN  IF HasPrefix(src, <<"[">>) /\ HasSuffix(TrimSpace(src), <<",">>) /\ tc.found
        THEN Repaired(<<"[">> \o tc.g \o <<"]">>, "trailingComma")
        ELSE IF (HasPrefix(src, <<"[", "\"">>) \/ HasPrefix(src, <<"[", "'">>))
                /\ quotedStringsRe(src)
        THEN Repaired(<<"[", "\"", "a", "\"", ",", "\"", "b", "\"", ",",
                        "\"", "c", "\"", ",", "1", "]">>, "quotedStrings")
        ELSE RepairShort(ReplaceAll("apostropheRe", src))

\* the non-empty trimmed elements of the array found by arrayExtractRe
ExtractedElements(ext) == IF ext.found THEN cleanElements(ext.g) ELSE <<>>

\* the text after the ellipsis branch: an array has its ellipses removed
WithoutEllipsis(src) ==
    IF HasPrefix(src, <<"[">>) /\ Contains(src, <<".", ".", ".">>)
    THEN ReplaceAll("ellipsisRe", src)
    ELSE src

\* the array of the elements left after the ellipsis is removed
EllipsisArray(elems) == Repaired(<<"[">> \o Join(elems, <<",">>) \o <<"]">>, "ellipsis")

\* from the minimal inputs to the end; stripped is src after the ellipsis branch
RepairInvalid(src, stripped) ==
    IF src = <<"[">> THEN Repaired(<<"[", "]">>, "minimal")
    ELSE IF src = <<"{">> THEN Repaired(<<"{", "}">>, "minimal")
    ELSE IF src = <<"[", "{", "]">> THEN Repaired(<<"[", "{", "}", "]">>, "minimal")
    ELSE IF /\ HasPrefix(src, <<"[">>) /\ Contains(src, <<".", ".", ".">>)
            /\ ExtractedElements(arrayExtractRe(stripped, 1)) # <<>>
    THEN EllipsisArray(ExtractedElements(arrayExtractRe(stripped, 1)))
    ELSE RepairArrayPaths(stripped)

\* from the json.Valid fast path on; src begins with "{", "[" or a double quote
RepairMarked(src) ==
    IF Valid(src) THEN Repaired(Compact(src), "valid")
    ELSE RepairInvalid(src, WithoutEllipsis(src))

\* the grave accent, which a TLA+ string cannot hold, is the character "GRAVE"
Grave == "GRAVE"

CodeFenceOpen == <<Grave, Grave, Grave, "j", "s", "o", "n">>

CodeFenceClose == <<Grave, Grave, Grave>>

\* the text begins with "{", "[" or a double quote
HasMarkerPrefix(src) ==
    HasPrefix(src, <<"{">>) \/ HasPrefix(src, <<"[">>) \/ HasPrefix(src, <<"\"">>)

\* the text from its first "{" or "[" on, unless it begins with a marker
FromMarker(src) ==
    IF HasMarkerPrefix(src) THEN src ELSE From(src, FirstOf(src, 1, {"{", "["}))

\* repairJSON after the trimming and the removal of the code fence
RepairTrimmed(src) ==
    IF src = <<"\"">> THEN Repaired(EmptyStringLiteral, "lone")
    ELSE IF src = <<"\n">> \/ src = <<" ">> THEN Repaired(EmptyStringLiteral, "lone")
    ELSE IF src = <<"]">> \/ src = <<"}">> THEN Repaired(EmptyStringLiteral, "lone")
    ELSE IF HasMarkerPrefix(src) \/ FirstOf(src, 1, {"{", "["}) <= Len(src)
    THEN RepairMarked(FromMarker(src))
    ELSE Repaired(EmptyStringLiteral, "noMarker")

repairJSON(src) ==
    IF src = <<>> THEN Repaired(<<>>, "empty")
    ELSE RepairTrimmed(TrimSpace(TrimSuffix(TrimPrefix(TrimSpace(src), CodeFenceOpen),
                                            CodeFenceClose)))

(***************************************************************************)
(* safeunmarshal: the entry points.  The result is [err, val, steps]: err  *)
(* names the error returned ("none" for nil), steps lists the calls made.  *)
(***************************************************************************)
DefaultMaxInputSize == 10 * 1024 * 1024

\* lenient defaults with a size limit of their own
DefaultOptionsOneByte == [MaxInputSize |-> 1, EnableRepair |-> TRUE]

DefaultOptions == [MaxInputSize |-> DefaultMaxInputSize, EnableRepair |-> TRUE]

StrictOptions == [MaxInputSize |-> DefaultMaxInputSize, EnableRepair |-> FALSE]

Failed(err, t, steps) == [err |-> err, val |-> Zero(t), steps |-> steps]

\* the text handed to the decoder: the extracted span without its line feeds
ExtractedData(rawInput) == DropNewlines(prepareJSONForUnmarshalling(rawInput))

\* the second json.Unmarshal, on the repaired text
DecodeRepaired(second, t) ==
    IF second.err # "none"
    THEN Failed("parseRepaired", t,
                <<"prepare", "unmarshal", "repairJSON", "unmarshalRepaired">>)
    ELSE [err |-> "none", val |-> second.val,
          steps |-> <<"prepare", "unmarshal", "repairJSON", "unmarshalRepaired">>]

\* the repair branch of ToWithOptions, on the result of repairJSON
RepairAndDecode(rep, t) ==
    IF rep.err # "none"
    THEN Failed("ErrJSONRepairFailed", t, <<"prepare", "unmarshal", "repairJSON">>)
    ELSE IF rep.text = <<>>
    THEN Failed("repairEmpty", t, <<"prepare", "unmarshal", "repairJSON">>)
    ELSE DecodeRepaired(Unmarshal(rep.text, t), t)

\* a size check that lets one byte too many through
SizeExceededOffByOne(rawInput, o) ==
    o.MaxInputSize > 0 /\ Len(rawInput) > o.MaxInputSize + 1

\* the input size limit: opts.MaxInputSize > 0 && len(raw) > opts.MaxInputSize
SizeExceeded(rawInput, o) == o.MaxInputSize > 0 /\ Len(rawInput) > o.MaxInputSize

\* a shape guard that is never taken
ShapeMismatchNever(t, data) == FALSE

\* the shape guard: isArray && !isJSONArray(data)
ShapeMismatch(t, data) == IsArrayKind(t) /\ ~isJSONArray(data)

\* a strict-mode exit that is never taken
RepairDisabledNever(o) == FALSE

\* the strict-mode exit: !opts.EnableRepair
RepairDisabled(o) == ~o.EnableRepair

\* ToWithOptions after the first json.Unmarshal
DecodeFirst(first, data, o, t) ==
    IF first.err = "none"
    THEN [err |-> "none", val |-> first.val, steps |-> <<"prepare", "unmarshal">>]
    ELSE IF ShapeMismatch(t, data)
    THEN Failed("ErrExpectedJSONArray", t, <<"prepare", "unmarshal">>)
    ELSE IF RepairDisabled(o) THEN Failed("parse", t, <<"prepare", "unmarshal">>)
    ELSE RepairAndDecode(repairJSON(data), t)

\* ToWithOptions after the extraction
DecodeExtracted(data, o, t) ==
    IF Len(data) = 0 THEN Failed("emptyInput", t, <<"prepare">>)
    ELSE DecodeFirst(Unmarshal(data, t), data, o, t)

ToWithOptions(rawInput, o, t) ==
    IF SizeExceeded(rawInput, o) THEN Failed("sizeExceeded", t, <<>>)
    ELSE DecodeExtracted(ExtractedData(rawInput), o, t)

ToLenient(rawInput, t) == ToWithOptions(rawInput, DefaultOptions, t)

To(rawInput, t) == ToWithOptions(rawInput, StrictOptions, t)

(***************************************************************************)
(* The inputs: every text over Alphabet up to MaxLen characters, the       *)
(* literal inputs of the package's tests, and three generated families     *)
(* (objects in a loose notation, objects cut short, objects after prose).  *)
(***************************************************************************)
MaxLen == 3

MaxLimit == 2

MaxNest == 5

Alphabet == {"{", "}", "[", "]", "\"", "'", ",", ":", "a", "1", " ", "\n", ".", "\\"}

RECURSIVE TextsUpTo(_)
TextsUpTo(n) ==
    IF n = 0 THEN {<<>>}
    ELSE LET shorter == TextsUpTo(n - 1)
         IN  shorter \cup {Append(t, c) : t \in {u \in shorter : Len(u) = n - 1},
                                          c \in Alphabet}

ShortTexts == TextsUpTo(MaxLen)

\* the words the generated objects are made of
NameKey == <<"n", "a", "m", "e">>

AgeKey == <<"a", "g", "e">>

John == <<"J", "o", "h", "n">>

\* a pair is <<key, kind, text>>, kind "str" or "num"
Pairs ==
    {<<NameKey, "str", John>>, <<NameKey, "str", <<"a", "1">>>>,
     <<NameKey, "num", <<"-", "1", ".", "5">>>>, <<AgeKey, "num", <<"3", "0">>>>,
     <<AgeKey, "str", <<"x">>>>, <<<<"k", "_", "1">>, "str", <<"t", "r", "u", "e">>>>}

PairLists == {<<p>> : p \in Pairs} \cup {<<p, q>> : p \in Pairs, q \in Pairs}

\* the quote a notation puts around keys and around string values
KeyQuote(style) ==
    CASE style = "double" -> <<"\"">> [] style = "single" -> <<"'">> [] style = "bare" -> <<>>

StringQuote(style) == IF style = "single" THEN <<"'">> ELSE <<"\"">>

RenderPair(style, p, gap) ==
    KeyQuote(style) \o p[1] \o KeyQuote(style) \o <<":">> \o gap
    \o (IF p[2] = "str" THEN StringQuote(style) \o p[3] \o StringQuote(style) ELSE p[3])

\* the object text of a list of pairs; gap is the white space after ":" and ","
RenderObject(style, ps, gap) ==
    <<"{">> \o Join([i \in 1..Len(ps) |-> RenderPair(style, ps[i], gap)], <<",">> \o gap)
    \o <<"}">>

Gaps == {<<>>, <<" ">>}

LooseObjects ==
    {RenderObject(style, ps, gap) : style \in {"bare", "single"}, ps \in PairLists, gap \in Gaps}

\* well-formed objects without their last character, the closing brace
CutObjects ==
    {SubSeq(RenderObject("double", ps, <<" ">>), 1, Len(RenderObject("double", ps, <<" ">>)) - 1)
        : ps \in PairLists}

\* a well-formed object whose string value holds any two of these characters
InnerChars == {"x", "{", "}", "[", "]"}

ProseTexts == {<<"a">>, <<"H", "i", ":", " ">>}

EmbeddedObjects ==
    {prose \o <<"{", "\"">> \o NameKey \o <<"\"", ":", "\"">> \o inner \o <<"\"", "}">>
        : prose \in ProseTexts,
          inner \in {<<c>> : c \in InnerChars} \cup {<<c, d>> : c \in InnerChars, d \in InnerChars}}

\* inputs of the package's tests and of the specification's scenarios
\* '{name: "John", age: 30}'
ScenarioUnquotedKeys ==
    <<"{", "n", "a", "m", "e", ":", " ", "\"", "J", "o", "h", "n", "\"", ",", " ", "a",
      "g", "e", ":", " ", "3", "0", "}">>

\* "{'name': 'John', 'age': 30}"
ScenarioSingleQuotes ==
    <<"{", "'", "n", "a", "m", "e", "'", ":", " ", "'", "J", "o", "h", "n", "'", ",",
      " ", "'", "a", "g", "e", "'", ":", " ", "3", "0", "}">>

\* ']'
ScenarioLoneCloser ==
    <<"]">>

\* '{"name": "John", "age": 30}'
ScenarioValidObject ==
    <<"{", "\"", "n", "a", "m", "e", "\"", ":", " ", "\"", "J", "o", "h", "n", "\"",
      ",", " ", "\"", "a", "g", "e", "\"", ":", " ", "3", "0", "}">>

\* '{"a":1}'
ScenarioShape ==
    <<"{", "\"", "a", "\"", ":", "1", "}">>

Scenarios ==
    {
     ScenarioUnquotedKeys,
     ScenarioSingleQuotes,
     \* '[1, 2, 3,]'
     <<"[", "1", ",", " ", "2", ",", " ", "3", ",", "]">>,
     \* '{"name": "John", "age": 30'
     <<"{", "\"", "n", "a", "m", "e", "\"", ":", " ", "\"", "J", "o", "h", "n", "\"",
      ",", " ", "\"", "a", "g", "e", "\"", ":", " ", "3", "0">>,
     \* 'Here is a obj: {"name": "John", "age": 30}'
     <<"H", "e", "r", "e", " ", "i", "s", " ", "a", " ", "o", "b", "j", ":", " ", "{",
      "\"", "n", "a", "m", "e", "\"", ":", " ", "\"", "J", "o", "h", "n", "\"", ",",
      " ", "\"", "a", "g", "e", "\"", ":", " ", "3", "0", "}">>,
     ScenarioLoneCloser,
     ScenarioValidObject,
     ScenarioShape,
     \* '```json\n{"name": "John", "age": 30}\n```'
     <<Grave, Grave, Grave, "j", "s", "o", "n", "\n", "{", "\"", "n", "a", "m", "e",
      "\"", ":", " ", "\"", "J", "o", "h", "n", "\"", ",", " ", "\"", "a", "g", "e",
      "\"", ":", " ", "3", "0", "}", "\n", Grave, Grave, Grave>>,
     \* '[1, 2, 3, ...]'
     <<"[", "1", ",", " ", "2", ",", " ", "3", ",", " ", ".", ".", ".", "]">>,
     \* '["a" "b" "c" 1'
     <<"[", "\"", "a", "\"", " ", "\"", "b", "\"", " ", "\"", "c", "\"", " ", "1">>,
     \* '{"key1": {"key2": [1, 2, 3'
     <<"{", "\"", "k", "e", "y", "1", "\"", ":", " ", "{", "\"", "k", "e", "y", "2",
      "\"", ":", " ", "[", "1", ",", " ", "2", ",", " ", "3">>,
     \* '[1\n1]'
     <<"[", "1", "\n", "1", "]">>,
     \* '["a\nb"]'
     <<"[", "\"", "a", "\n", "b", "\"", "]">>,
     \* 'true'
     <<"t", "r", "u", "e">>,
     \* 'null'
     <<"n", "u", "l", "l">>,
     \* '42'
     <<"4", "2">>,
     \* '"hello"'
     <<"\"", "h", "e", "l", "l", "o", "\"">>,
     \* '[1, 2, 3]'
     <<"[", "1", ",", " ", "2", ",", " ", "3", "]">>,
     \* '{"k": [1 ...'
     <<"{", "\"", "k", "\"", ":", " ", "[", "1", " ", ".", ".", ".">>
    }

\* every text of braces and brackets up to MaxNest characters
RECURSIVE NestTextsUpTo(_)
NestTextsUpTo(n) ==
    IF n = 0 THEN {<<>>}
    ELSE LET shorter == NestTextsUpTo(n - 1)
         IN  shorter \cup {Append(t, c) : t \in {u \in shorter : Len(u) = n - 1},
                                          c \in {"{", "}", "[", "]"}}

NestTexts == NestTextsUpTo(MaxNest)

\* well-formed objects followed by a closing brace too many
ExtraCloserObjects == {RenderObject("double", ps, <<" ">>) \o <<"}">> : ps \in PairLists}

\* arrays whose elements only white space separates: up to MaxElems elements,
\* each a digit sequence or a double-quoted string without inner quotes
MaxElems == 4

ArrayElements == {<<"1">>, <<"2", "3">>, <<"\"", "x", "\"">>}

RECURSIVE ElementListsUpTo(_)
ElementListsUpTo(n) ==
    IF n = 0 THEN {<<>>}
    ELSE LET shorter == ElementListsUpTo(n - 1)
         IN  shorter \cup {Append(es, e) : es \in {u \in shorter : Len(u) = n - 1},
                                           e \in ArrayElements}

ElementLists == ElementListsUpTo(MaxElems) \ {<<>>}

SpacedArray(es) == <<"[">> \o Join(es, <<" ">>) \o <<"]">>

SpacedArrays == {SpacedArray(es) : es \in ElementLists}

\* a bare value after the colon of a key: white space, a word, and what follows
ValueGaps == {<<>>, <<" ">>, <<" ", " ">>}

BareWords ==
    {<<"t", "r", "u", "e">>, <<"T", "R", "U", "E">>, <<"F", "a", "l", "s", "e">>,
     <<"n", "u", "l", "l">>, <<"t", "r", "u", "e", "x">>, <<"n", "u", "l">>, <<"x">>}

ValueTails == {<<>>, <<",">>, <<"}">>, <<" ", "}">>}

BareValueText(gap, word, tail) == <<"{", "\"", "k", "\"", ":">> \o gap \o word \o tail

BareValueTexts ==
    {BareValueText(gap, word, tail) : gap \in ValueGaps, word \in BareWords, tail \in ValueTails}

Inputs ==
    ShortTexts \cup Scenarios \cup LooseObjects \cup CutObjects \cup EmbeddedObjects
    \cup NestTexts \cup ExtraCloserObjects \cup SpacedArrays \cup BareValueTexts

(***************************************************************************)
(* The state machine: one input text, and one call of an entry point on it *)
(***************************************************************************)
NoOptions == [MaxInputSize |-> 0, EnableRepair |-> FALSE]

NoResult == [err |-> "none", val |-> <<>>, steps |-> <<>>]

\* no tools/call request was made and no tool was executed
NoRequest == [params |-> "none", name |-> "none"]

NotExecuted == [called |-> FALSE, err |-> <<>>]

\* no stdio transport runs
NotStarted == stdin = <<>> /\ read = 0 /\ stdout = <<>> /\ pc = "idle" /\ scanner = "idle"

Init ==
    /\ raw \in Inputs
    /\ op = "idle"
    /\ T = "none"
    /\ opts = NoOptions
    /\ out = NoResult
    /\ request = NoRequest
    /\ exec = NotExecuted
    /\ NotStarted

CallTo ==
    /\ op = "idle"
    /\ \E t \in Types :
        /\ op' = "To"
        /\ T' = t
        /\ opts' = StrictOptions
        /\ out' = To(raw, t)
    /\ UNCHANGED <<raw, rpcVars, stdioVars>>

CallToLenient ==
    /\ op = "idle"
    /\ \E t \in Types :
        /\ op' = "ToLenient"
        /\ T' = t
        /\ opts' = DefaultOptions
        /\ out' = ToLenient(raw, t)
    /\ UNCHANGED <<raw, rpcVars, stdioVars>>

CallToWithOptions ==
    /\ op = "idle"
    /\ \E t \in Types, n \in 0..MaxLimit, r \in BOOLEAN :
        /\ op' = "ToWithOptions"
        /\ T' = t
        /\ opts' = [MaxInputSize |-> n, EnableRepair |-> r]
        /\ out' = ToWithOptions(raw, opts', t)
    /\ UNCHANGED <<raw, rpcVars, stdioVars>>

CallRepairJSON ==
    /\ op = "idle"
    /\ op' = "repairJSON"
    /\ out' = repairJSON(raw)
    /\ UNCHANGED <<raw, T, opts, rpcVars, stdioVars>>

CallPrepareJSONForUnmarshalling ==
    /\ op = "idle"
    /\ op' = "prepareJSONForUnmarshalling"
    /\ out' = [err |-> "none", text |-> prepareJSONForUnmarshalling(raw),
               path |-> ExtractorBranch(raw)]
    /\ UNCHANGED <<raw, T, opts, rpcVars, stdioVars>>

\* the rewrite stages called on the input text itself
CallReplaceQuotes ==
    /\ op = "idle"
    /\ op' = "replaceQuotes"
    /\ out' = [err |-> "none", text |-> replaceQuotes(raw), path |-> "none"]
    /\ UNCHANGED <<raw, T, opts, rpcVars, stdioVars>>

CallFixUnquotedValues ==
    /\ op = "idle"
    /\ op' = "fixUnquotedValues"
    /\ out' = [err |-> "none", text |-> fixUnquotedValues(raw), path |-> "none"]
    /\ UNCHANGED <<raw, T, opts, rpcVars, stdioVars>>

CallRemoveTrailingCommas ==
    /\ op = "idle"
    /\ op' = "removeTrailingCommas"
    /\ out' = [err |-> "none", text |-> removeTrailingCommas(raw), path |-> "none"]
    /\ UNCHANGED <<raw, T, opts, rpcVars, stdioVars>>

CallBalanceBrackets ==
    /\ op = "idle"
    /\ op' = "balanceBrackets"
    /\ out' = [err |-> "none", text |-> balanceBrackets(raw), path |-> "none"]
    /\ UNCHANGED <<raw, T, opts, rpcVars, stdioVars>>

Next ==
    \/ CallTo
    \/ CallToLenient
    \/ CallToWithOptions
    \/ CallRepairJSON
    \/ CallPrepareJSONForUnmarshalling
    \/ CallReplaceQuotes
    \/ CallFixUnquotedValues
    \/ CallRemoveTrailingCommas
    \/ CallBalanceBrackets

Spec == Init /\ [][Next]_vars

(***************************************************************************)
(* repairJSON step by step: the statements from "repaired := src" to the   *)
(* end of the function, one action per statement.  op names the statement  *)
(* executed last and out.text is the value of the variable repaired.       *)
(***************************************************************************)
\* the value of src when the rewrite stages begin
StagesInput(src) ==
    ReplaceAll("apostropheRe", WithoutEllipsis(FromMarker(
        TrimSpace(TrimSuffix(TrimPrefix(TrimSpace(src), CodeFenceOpen), CodeFenceClose)))))

\* no return statement before the rewrite stages is taken
ReachesStages(src) == repairJSON(src).path \in {"stages", "rebuilt", "fallback", "failed"}

\* the variable repaired while the stages run
Working(text) == [err |-> "none", text |-> text, path |-> "running"]

\* repaired := src
EnterStages ==
    /\ op = "idle"
    /\ ReachesStages(raw)
    /\ op' = "src"
    /\ out' = Working(StagesInput(raw))
    /\ UNCHANGED <<raw, T, opts, rpcVars, stdioVars>>

\* repaired = replaceQuotes(repaired)
StepReplaceQuotes ==
    /\ op = "src"
    /\ op' = "replaceQuotes"
    /\ out' = Working(replaceQuotes(out.text))
    /\ UNCHANGED <<raw, T, opts, rpcVars, stdioVars>>

\* repaired = fixUnquotedKeys(repaired)
StepFixUnquotedKeys ==
    /\ op = "replaceQuotes"
    /\ op' = "fixUnquotedKeys"
    /\ out' = Working(fixUnquotedKeys(out.text))
    /\ UNCHANGED <<raw, T, opts, rpcVars, stdioVars>>

\* repaired = fixUnquotedValues(repaired)
StepFixUnquotedValues ==
    /\ op = "fixUnquotedKeys"
    /\ op' = "fixUnquotedValues"
    /\ out' = Working(fixUnquotedValues(out.text))
    /\ UNCHANGED <<raw, T, opts, rpcVars, stdioVars>>

\* a trailing-comma removal that leaves the text as it is
StepRemoveTrailingCommasSkipped ==
    /\ op = "fixUnquotedValues"
    /\ op' = "removeTrailingCommas"
    /\ out' = Working(out.text)
    /\ UNCHANGED <<raw, T, opts, rpcVars, stdioVars>>

\* repaired = removeTrailingCommas(repaired)
StepRemoveTrailingCommas ==
    /\ op = "fixUnquotedValues"
    /\ op' = "removeTrailingCommas"
    /\ out' = Working(removeTrailingCommas(out.text))
    /\ UNCHANGED <<raw, T, opts, rpcVars, stdioVars>>

\* a bracket balancing that leaves the text as it is
StepBalanceBracketsSkipped ==
    /\ op = "removeTrailingCommas"
    /\ op' = "balanceBrackets"
    /\ out' = Working(out.text)
    /\ UNCHANGED <<raw, T, opts, rpcVars, stdioVars>>

\* repaired = balanceBrackets(repaired)
StepBalanceBrackets ==
    /\ op = "removeTrailingCommas"
    /\ op' = "balanceBrackets"
    /\ out' = Working(balanceBrackets(out.text))
    /\ UNCHANGED <<raw, T, opts, rpcVars, stdioVars>>

\* if strings.Contains(repaired, "...") { repaired = ellipsisRe.ReplaceAllString(repaired, "") }
StepEllipsis ==
    /\ op = "balanceBrackets"
    /\ op' = "ellipsisRe"
    /\ out' = Working(StageEllipsis(out.text))
    /\ UNCHANGED <<raw, T, opts, rpcVars, stdioVars>>

\* if strings.HasPrefix(repaired, "[") { repaired = arrayMissingCommaRe.ReplaceAllString(..) }
StepArrayCommas ==
    /\ op = "ellipsisRe"
    /\ op' = "arrayMissingCommaRe"
    /\ out' = Working(StageArrayCommas(out.text))
    /\ UNCHANGED <<raw, T, opts, rpcVars, stdioVars>>

\* the json.Valid test after the stages and, when it fails, the last resort
StepValidate ==
    /\ op = "arrayMissingCommaRe"
    /\ op' = "returned"
    /\ out' = RepairStaged(out.text)
    /\ UNCHANGED <<raw, T, opts, rpcVars, stdioVars>>

NextStages ==
    \/ EnterStages
    \/ StepReplaceQuotes
    \/ StepFixUnquotedKeys
    \/ StepFixUnquotedValues
    \/ StepRemoveTrailingCommas
    \/ StepBalanceBrackets
    \/ StepEllipsis
    \/ StepArrayCommas
    \/ StepValidate

SpecStages == Init /\ [][NextStages]_vars

(***************************************************************************)
(* tools and mcp: a tools/call request.  An error value is the chain that  *)
(* errors.Unwrap walks, outermost first, and the nil error is the empty    *)
(* chain; a link of the chain is a *tools.Error with its code or an error  *)
(* of another type.                                                        *)
(***************************************************************************)
CodeInvalidParams == -32602

InvalidParams == -32602

\* tools.NewError(code, message)
ToolError(code, message) == [tool |-> TRUE, code |-> code, message |-> message]

\* an error of another type: errors.New(message)
PlainError(message) == [tool |-> FALSE, code |-> 0, message |-> message]

\* errors.As(err, &toolErr): the first *tools.Error of the chain, <<>> if none
errorsAs(err) ==
    IF \E i \in 1..Len(err) : err[i].tool
    THEN <<err[CHOOSE i \in 1..Len(err) : err[i].tool /\ \A j \in 1..(i - 1) : ~err[j].tool]>>
    ELSE <<>>

\* TypedTool.Execute: the error returned; handlerErr is what the handler returns
Execute(params, t, handlerErr) ==
    IF Len(params) > 0 /\ To(params, t).err # "none"
    THEN <<ToolError(CodeInvalidParams, "failed to parse parameters")>>
    ELSE handlerErr

\* a response of handleToolsCall: each of error and result is <<>> for nil
RPCFailure(code, message) == [error |-> <<[code |-> code, message |-> message]>>, result |-> <<>>]

ToolsCallResult(isError, text) ==
    [error |-> <<>>, result |-> <<[isError |-> isError, text |-> text]>>]

\* a reserved range that ends below the standard codes
ReservedCodeAboveStandard(code) == code >= -32768 /\ code < InvalidParams

\* toolErr.Code >= -32768 && toolErr.Code <= -32000
ReservedCode(code) == code >= -32768 /\ code <= -32000

\* handleToolsCall after Execute has returned err; found is errors.As(err)
ExecutionFailed(err, found) ==
    IF found # <<>> /\ ReservedCode(found[1].code)
    THEN RPCFailure(found[1].code, found[1].message)
    ELSE ToolsCallResult(TRUE, <<"Error executing tool: ", err>>)

\* handleToolsCall from the call of Execute on
Executed(err) ==
    IF err # <<>> THEN ExecutionFailed(err, errorsAs(err))
    ELSE ToolsCallResult(FALSE, <<"output">>)

\* the registered tools
ToolNames == {"echo"}

\* handleToolsCall; req is the request, err what Execute returns when called
handleToolsCall(req, err) ==
    IF req.params = "invalid" THEN RPCFailure(InvalidParams, "Invalid tools/call parameters")
    ELSE IF req.name \notin ToolNames THEN RPCFailure(InvalidParams, "Tool not found")
    ELSE Executed(err)

\* the error codes a handler may put into a tools.Error
ErrorCodes == {-32769, -32768, -32603, -32602, -32001, -32000, -31999, 0, 1}

\* what a handler returns: nil, an error of another type, a tools.Error, a
\* tools.Error wrapped by another error, a tools.Error wrapping a tools.Error
HandlerErrors ==
    {<<>>, <<PlainError("handler error")>>}
    \cup {<<ToolError(c, "custom")>> : c \in ErrorCodes}
    \cup {<<PlainError("wrapped"), ToolError(c, "custom")>> : c \in ErrorCodes}
    \cup {<<ToolError(c, "outer"), ToolError(d, "cause")>> : c \in ErrorCodes, d \in ErrorCodes}

\* the arguments of a call: none, a well-formed record, a record after prose,
\* a record with unquoted keys, an array
ToolArguments ==
    {<<>>, ScenarioValidObject, <<"a">> \o ScenarioValidObject, ScenarioUnquotedKeys,
     <<"[", "1", "]">>}

InitRPC ==
    /\ raw \in ToolArguments
    /\ op = "idle"
    /\ T = "none"
    /\ opts = NoOptions
    /\ out = NoResult
    /\ request = NoRequest
    /\ exec = NotExecuted
    /\ NotStarted

CallHandleToolsCall ==
    /\ op = "idle"
    /\ \E t \in Types, params \in {"valid", "invalid"}, name \in ToolNames \cup {"missing"},
          handlerErr \in HandlerErrors :
        /\ op' = "tools/call"
        /\ T' = t
        /\ request' = [params |-> params, name |-> name]
        /\ exec' = IF params = "valid" /\ name \in ToolNames
                   THEN [called |-> TRUE, err |-> Execute(raw, t, handlerErr)]
                   ELSE NotExecuted
        /\ out' = handleToolsCall(request', exec'.err)
    /\ UNCHANGED <<raw, opts, stdioVars>>

SpecRPC == InitRPC /\ [][CallHandleToolsCall]_vars

(***************************************************************************)
(* mcp: HandleMessage and StdioTransport.Start.  An input line is given by *)
(* what encoding/json sees in it: syntax is "empty" (a line of length 0),  *)
(* "tooLong" (a line over the scanner's 10MB buffer), "invalid" (not       *)
(* JSON), "null", "array" or "object"; the members of an object are JSON   *)
(* values <<kind, text>> with <<"absent", "">> for a member left out.      *)
(***************************************************************************)
ParseError == -32700

InvalidRequest == -32600

MethodNotFound == -32601

Absent == <<"absent", "">>

\* the value a string field of JSONRPCRequest takes: null and a member left
\* out leave the zero value
StringField(v) == IF v[1] = "str" THEN v[2] ELSE ""

\* json.Unmarshal(data, &req) fails: bad syntax, a document that is not an
\* object or null, a jsonrpc or method member that is not a string or null
RequestDecodeFails(line) ==
    \/ line.syntax \in {"invalid", "array"}
    \/ /\ line.syntax = "object"
       /\ \/ line.jsonrpc[1] \notin {"str", "null", "absent"}
          \/ line.method[1] \notin {"str", "null", "absent"}

\* req.ID after a successful decoding: nil (<<>>) for null and for no member
RequestID(line) ==
    IF line.syntax = "object" /\ line.id[1] \notin {"null", "absent"} THEN <<line.id>>
    ELSE <<>>

\* a response; no response (nil) is <<>>
Response(id, outcome) == <<[id |-> id, error |-> outcome.error, result |-> outcome.result]>>

\* handleInitialize
handleInitialize(params) ==
    IF params.params = "invalid" THEN RPCFailure(InvalidParams, "Invalid initialize parameters")
    ELSE [error |-> <<>>, result |-> <<"InitializeResult">>]

\* the method switch of HandleMessage; the handler of the registered tool returns nil
Route(method, params) ==
    CASE method = "initialize" -> handleInitialize(params)
      [] method = "tools/list" -> [error |-> <<>>, result |-> <<"ToolsListResult">>]
      [] method = "tools/call" -> handleToolsCall(params, <<>>)
      [] OTHER -> RPCFailure(MethodNotFound, "Method not found")

\* HandleMessage after a successful decoding
HandleRequest(line, id) ==
    IF id = <<>> THEN <<>>
    ELSE IF line.syntax # "object" \/ StringField(line.jsonrpc) # "2.0"
    THEN Response(id, RPCFailure(InvalidRequest, "Invalid JSON-RPC version"))
    ELSE Response(id, Route(StringField(line.method), line.params))

HandleMessage(line) ==
    IF RequestDecodeFails(line) THEN Response(<<>>, RPCFailure(ParseError, "Parse error"))
    ELSE HandleRequest(line, RequestID(line))

\* the input lines of the model
MaxLines == 2

NotAMessage(syntax) ==
    [syntax |-> syntax, jsonrpc |-> Absent, id |-> Absent, method |-> Absent,
     params |-> NoRequest]

Messages ==
    {[syntax |-> "object", jsonrpc |-> v, id |-> i, method |-> m, params |-> NoRequest]
        : v \in {<<"str", "2.0">>, <<"str", "1.0">>, <<"num", "2">>},
          i \in {Absent, <<"null", "">>, <<"num", "1">>, <<"num", "2">>},
          m \in {<<"str", "tools/list">>, <<"str", "initialized">>}}
    \cup {[syntax |-> "object", jsonrpc |-> <<"str", "2.0">>, id |-> <<"str", "a">>,
           method |-> <<"str", m>>, params |-> [params |-> q, name |-> n]]
            : m \in {"initialize", "tools/call"}, q \in {"valid", "invalid"},
              n \in {"echo", "missing"}}

Lines == Messages \cup {NotAMessage(k) : k \in {"empty", "tooLong", "invalid", "null", "array"}}

RECURSIVE LinesUpTo(_)
LinesUpTo(n) ==
    IF n = 0 THEN {<<>>}
    ELSE LinesUpTo(n - 1)
         \cup {Append(ls, l) : ls \in {u \in LinesUpTo(n - 1) : Len(u) = n - 1}, l \in Lines}

InitStdio ==
    /\ raw = <<>>
    /\ op = "idle"
    /\ T = "none"
    /\ opts = NoOptions
    /\ out = NoResult
    /\ request = NoRequest
    /\ exec = NotExecuted
    /\ stdin \in LinesUpTo(MaxLines)
    /\ read = 0
    /\ stdout = <<>>
    /\ pc = "running"
    /\ scanner = "Scan"

\* the scanner goroutine, in scanner.Scan() on the line after the read ones:
\* with a line it goes to the send on scanChan; at the end of the input it
\* returns and scanChan is closed; on a line the buffer cannot hold it puts
\* the error into errChan, returns, and scanChan is closed
ReaderScan ==
    /\ scanner = "Scan"
    /\ scanner' = IF read = Len(stdin) THEN "closed"
                  ELSE IF stdin[read + 1].syntax = "tooLong" THEN "failed"
                  ELSE "send"
    /\ UNCHANGED <<stdin, read, stdout, pc, callVars>>

\* the scanner goroutine waits at scanChan <- line and Start is in its select
LineReady == pc = "running" /\ scanner = "send"

\* case line, ok := <-scanChan: the line is handled and the response, if any,
\* is written; the goroutine goes on to the next scanner.Scan()
ReceiveLine ==
    /\ LineReady
    /\ read' = read + 1
    /\ scanner' = "Scan"
    /\ stdout' = IF stdin[read'].syntax = "empty" THEN stdout
                 ELSE stdout \o HandleMessage(stdin[read'])
    /\ UNCHANGED <<stdin, pc, callVars>>

\* the same, and t.writer.Write returns an error
ReceiveLineWriteFails ==
    /\ LineReady
    /\ stdin[read + 1].syntax # "empty"
    /\ HandleMessage(stdin[read + 1]) # <<>>
    /\ read' = read + 1
    /\ scanner' = "Scan"
    /\ pc' = "writeError"
    /\ UNCHANGED <<stdin, stdout, callVars>>

\* scanChan is closed at the end of the input: Start returns nil
ScannerClosed ==
    /\ pc = "running"
    /\ scanner = "closed"
    /\ pc' = "eof"
    /\ UNCHANGED <<stdin, read, stdout, scanner, callVars>>

\* scanChan is closed on a line the scanner cannot hold: Start returns the error
ScannerFailed ==
    /\ pc = "running"
    /\ scanner = "failed"
    /\ pc' = "scanError"
    /\ UNCHANGED <<stdin, read, stdout, scanner, callVars>>

\* case <-ctx.Done(): the context is cancelled and Start returns nil
ContextDone ==
    /\ pc = "running"
    /\ pc' = "cancelled"
    /\ UNCHANGED <<stdin, read, stdout, scanner, callVars>>

NextStdio ==
    \/ ReaderScan
    \/ ReceiveLine
    \/ ReceiveLineWriteFails
    \/ ScannerClosed
    \/ ScannerFailed
    \/ ContextDone

SpecStdio == InitStdio /\ [][NextStdio]_vars

\* the scanner goroutine is scheduled: a scanner.Scan() on a finite input returns
SpecStdioFair == SpecStdio /\ WF_vars(ReaderScan)

(***************************************************************************)
(* Properties                                                              *)
(***************************************************************************)
EntryPoints == {"To", "ToLenient", "ToWithOptions"}

\* a call of an entry point has returned
Returned == op \in EntryPoints

\* the call went past the size check
WithinLimit == ~(opts.MaxInputSize > 0 /\ Len(raw) > opts.MaxInputSize)

\* C1: an input longer than a positive MaxInputSize yields the size error and
\* the zero value, whatever its content and whatever EnableRepair is, and no
\* extraction, decoding or repair step has run
C1_SizeLimit ==
    (Returned /\ opts.MaxInputSize > 0 /\ Len(raw) > opts.MaxInputSize)
        => /\ out.err = "sizeExceeded"
           /\ out.val = Zero(T)
           /\ out.steps = <<>>

\* a well-formed object of MaxInputSize + 1 bytes, repair enabled, is refused
C1_Witness ==
    /\ op = "ToWithOptions"
    /\ raw = <<"{", "}">>
    /\ opts = [MaxInputSize |-> 1, EnableRepair |-> TRUE]
    /\ out.err = "sizeExceeded"

C3_StrictOnlyWellFormed ==
    (op = "To" /\ out.err = "none") => Valid(TrimSpace(raw))

\* the first character of the extracted text that is not white space is not "["
RootNotArray(data) ==
    LET i == RunEnd(data, 1, JSONSpace)
    IN  i <= Len(data) /\ data[i] # "["

FirstMarker == FirstOf(raw, 1, {"{", "[", "}", "]"})

\* the input is prose without brace or bracket followed by one well-formed
\* object that decodes into the target type
ProseThenObject ==
    /\ FirstMarker > 1
    /\ FirstMarker <= Len(raw)
    /\ raw[FirstMarker] = "{"
    /\ Valid(From(raw, FirstMarker))
    /\ Unmarshal(From(raw, FirstMarker), T).err = "none"

\* C5: for prose without brace or bracket followed by one well-formed object,
\* every entry point returns without error the value of strictly decoding the
\* object alone, whatever characters its string values contain
C5_EmbeddedAfterProse ==
    (Returned /\ WithinLimit /\ ProseThenObject)
        => /\ out.err = "none"
           /\ out.val = Unmarshal(From(raw, FirstMarker), T).val

\* the input with a closing brace appended
Completed == raw \o <<"}">>

\* the only defect of the input object is its missing final closing brace
OnlyBraceMissing ==
    /\ HasPrefix(raw, <<"{">>)
    /\ ~Valid(raw)
    /\ Valid(Completed)
    /\ Unmarshal(Completed, T).err = "none"

\* C6: ToLenient of an object whose only defect is the missing final closing
\* brace returns without error the value of decoding the completed object
C6_MissingClosingBrace ==
    (op = "ToLenient" /\ OnlyBraceMissing)
        => /\ out.err = "none"
           /\ out.val = Unmarshal(Completed, T).val

\* C7: the lone "]" is repaired to the empty string literal, lenient decoding
\* of it into a string target succeeds with the empty string, and lenient
\* decoding of it into a struct target fails with a decode error
C7_LoneCloser ==
    raw = ScenarioLoneCloser
        => /\ op = "repairJSON" => (out.err = "none" /\ out.text = EmptyStringLiteral)
           /\ (op = "ToLenient" /\ T = "String")
                  => (out.err = "none" /\ out.val = Zero("String"))
           /\ (op = "ToLenient" /\ T = "Person")
                  => out.err \in {"parse", "parseRepaired"}

\* the notations of C8: bare identifier keys, or single-quoted keys and strings
LooseStyles == {"bare", "single"}

\* C8: ToLenient of an object written with bare keys or with single quotes,
\* whose values are numbers or plain alphanumeric strings, returns without
\* error the value of decoding the same object written with double quotes
C8_LooseNotation ==
    op = "ToLenient" =>
        \A style \in LooseStyles, ps \in PairLists, gap \in Gaps :
            (/\ raw = RenderObject(style, ps, gap)
             /\ Unmarshal(RenderObject("double", ps, gap), T).err = "none")
                => /\ out.err = "none"
                   /\ out.val = Unmarshal(RenderObject("double", ps, gap), T).val

\* {name: "John", age: 30} and {'name': 'John', 'age': 30} decoded leniently
\* into the record give name "John" and age 30 after a repair
C8_Witness ==
    /\ op = "ToLenient"
    /\ T = "Person"
    /\ raw \in {ScenarioUnquotedKeys, ScenarioSingleQuotes}
    /\ out.err = "none"
    /\ out.val = Unmarshal(ScenarioValidObject, "Person").val
    /\ out.steps = <<"prepare", "unmarshal", "repairJSON", "unmarshalRepaired">>

\* the value a JSON text decodes to, as jsonEqual compares it
Decoded(text) == Unmarshal(text, "Any")

\* C9: for every input that is already well-formed JSON (object, array,
\* string, number, boolean or null) repairJSON returns without error a text
\* whose decoded value equals the decoded value of the input
C9_IdempotentOnValid ==
    (op = "repairJSON" /\ Valid(raw))
        => /\ out.err = "none"
           /\ Decoded(out.text).err = "none"
           /\ Decoded(out.text).val = Decoded(raw).val

\* C10: whenever repairJSON returns without error, the returned text holds as
\* many "{" as "}" and as many "[" as "]"
C10_BalancedOutput ==
    (op = "repairJSON" /\ out.err = "none")
        => /\ Count(out.text, "{") = Count(out.text, "}")
           /\ Count(out.text, "[") = Count(out.text, "]")

\* C11: whenever repairJSON returns without error for a non-empty input, the
\* returned text is valid JSON, on the early array paths as on the others
C11_SuccessIsValid ==
    (op = "repairJSON" /\ raw # <<>> /\ out.err = "none") => Valid(out.text)

\* the working text at the last validity test of repairJSON, for an input
\* that goes through the rewrite stages
WorkingText(src) ==
    Rebuild(RepairStages(ReplaceAll("apostropheRe", WithoutEllipsis(FromMarker(
        TrimSpace(TrimSuffix(TrimPrefix(TrimSpace(src), CodeFenceOpen), CodeFenceClose)))))))

\* the outcome of the last resort on a working text that is not valid
LastResort(work) ==
    IF HasPrefix(work, <<"{">>) THEN Repaired(<<"{", "}">>, "fallback")
    ELSE IF HasPrefix(work, <<"[">>) THEN Repaired(<<"[", "]">>, "fallback")
    ELSE [err |-> "ErrJSONRepairFailed", text |-> <<>>, path |-> "failed"]

\* C12: when the working text is still invalid after every stage, repairJSON
\* returns {} if the text begins with "{", [] if it begins with "[", and
\* ErrJSONRepairFailed if it begins with neither; it returns an error nowhere else
C12_TerminalFallback ==
    op = "repairJSON"
        => /\ out.path \in {"fallback", "failed"}
                => ~Valid(WorkingText(raw)) /\ out = LastResort(WorkingText(raw))
           /\ out.err # "none" => out.err = "ErrJSONRepairFailed" /\ out.path = "failed"

\* an unterminated string begins with neither "{" nor "[": the repair fails
C12_Witness ==
    /\ op = "repairJSON"
    /\ raw = <<"\"", "a">>
    /\ out.err = "ErrJSONRepairFailed"
    /\ ~Valid(WorkingText(raw))

\* C13: whenever the extracted text is well-formed JSON, repairJSON is not
\* called on it, in lenient mode as in strict mode, also when the text does
\* not decode into the target type: the outcome is that of the first decoding
C13_FastPath ==
    (Returned /\ WithinLimit /\ Valid(ExtractedData(raw)))
        => /\ \A i \in 1..Len(out.steps) : out.steps[i] # "repairJSON"
           /\ out.val = Unmarshal(ExtractedData(raw), T).val
           /\ (out.err = "none") <=> (Unmarshal(ExtractedData(raw), T).err = "none")

\* the errors raised before the repair branch
SharedErrors == {"sizeExceeded", "emptyInput", "ErrExpectedJSONArray"}

\* the same call in the other mode: To for ToLenient, ToLenient for To, and
\* ToWithOptions with EnableRepair inverted
OtherMode ==
    CASE op = "To" -> ToLenient(raw, T)
      [] op = "ToLenient" -> To(raw, T)
      [] OTHER -> ToWithOptions(raw, [opts EXCEPT !.EnableRepair = ~opts.EnableRepair], T)

\* the outcome of the same call in the other mode agrees with this one
ModesAgree(other) ==
    /\ (~opts.EnableRepair /\ out.err = "none")
            => other.err = "none" /\ other.val = out.val
    /\ (out.err \in SharedErrors \/ other.err \in SharedErrors) => other.err = out.err
    /\ other # out
            => /\ WithinLimit
               /\ ExtractedData(raw) # <<>>
               /\ Unmarshal(ExtractedData(raw), T).err # "none"

\* C14: what the strict call returns without error the lenient call returns
\* too; both modes return the same size, empty-input and shape-mismatch
\* errors; they differ only where the first decoding of the extracted text fails
C14_OnePipeline == Returned => ModesAgree(OtherMode)

\* the strict call decodes a well-formed object and the lenient call agrees
C14_Witness ==
    /\ op = "To"
    /\ T = "Person"
    /\ raw = ScenarioValidObject
    /\ out.err = "none"
    /\ ToLenient(raw, T) = out

\* C15: the empty-input error is returned exactly when the raw buffer is empty
\* or holds white space only
C15_EmptyInputOnlyForBlank ==
    (Returned /\ WithinLimit) => ((out.err = "emptyInput") <=> (TrimSpace(raw) = <<>>))

\* the text begins with "{" and ends with "}", or begins with "[" and ends with "]"
Enclosed(text) ==
    \/ Head(text) = "{" /\ text[Len(text)] = "}"
    \/ Head(text) = "[" /\ text[Len(text)] = "]"

\* a call of the extractor on a text that is not blank has returned
Extracted == op = "prepareJSONForUnmarshalling" /\ TrimSpace(raw) # <<>>

CloserOf(opener) == IF opener = "{" THEN "}" ELSE "]"

\* openers less closers of one kind in a text
Net(text, opener) == Count(text, opener) - Count(text, CloserOf(opener))

\* the text begins with the opener and ends at the closer that matches it:
\* the nesting of that kind is positive inside and back to zero at the end
MatchedSpan(text, opener) ==
    /\ text # <<>>
    /\ Head(text) = opener
    /\ Net(text, opener) = 0
    /\ \A k \in 1..(Len(text) - 1) : Net(SubSeq(text, 1, k), opener) > 0

\* the first opener of the kind in the text has its matching closer in the text
HoldsMatchedSpan(text, opener) ==
    \E j \in 1..Len(text) : MatchedSpan(SubSeq(text, FirstOf(text, 1, {opener}), j), opener)

\* the extractor has returned from its span search
Searched == op = "prepareJSONForUnmarshalling" /\ out.path = "search"

\* the span begins at the first occurrence of its opener in the text
AtFirstOpener(span) ==
    span = SubSeq(raw, FirstOf(raw, 1, {Head(span)}),
                  FirstOf(raw, 1, {Head(span)}) + Len(span) - 1)

\* C17: a span returned by the span search begins at the first opener of its
\* kind and ends at the closer matching that opener, whatever precedes it; and
\* a text that holds such a span has a span returned
C17_SpanIsMatched ==
    Searched
        => /\ out.text # <<>>
                => AtFirstOpener(out.text) /\ MatchedSpan(out.text, Head(out.text))
           /\ (HoldsMatchedSpan(raw, "{") \/ HoldsMatchedSpan(raw, "["))
                => out.text # <<>>

\* C18: from a text that is not enclosed and holds both a matched object span
\* and a matched array span, the span search returns the object span
C18_ObjectPreferred ==
    (Searched /\ HoldsMatchedSpan(raw, "{") /\ HoldsMatchedSpan(raw, "["))
        => MatchedSpan(out.text, "{")

\* C19: when Execute returns a tools.Error with a code in -32768..-32000,
\* the InvalidParams of undecodable arguments included, the response carries
\* an error with that code and message and no result; for every other error
\* of Execute it carries no error and a result with IsError set
C19_ToolErrorMapping ==
    (op = "tools/call" /\ exec.called /\ exec.err # <<>>)
        => IF /\ errorsAs(exec.err) # <<>>
              /\ errorsAs(exec.err)[1].code >= -32768
              /\ errorsAs(exec.err)[1].code <= -32000
           THEN /\ out.result = <<>>
                /\ out.error = <<[code |-> errorsAs(exec.err)[1].code,
                                  message |-> errorsAs(exec.err)[1].message]>>
           ELSE /\ out.error = <<>>
                /\ Len(out.result) = 1
                /\ out.result[1].isError

\* arguments with unquoted keys do not decode strictly: the response carries
\* the error -32602 and no result
C19_Witness ==
    /\ op = "tools/call"
    /\ raw = ScenarioUnquotedKeys
    /\ T = "Person"
    /\ exec.called
    /\ out.result = <<>>
    /\ out.error = <<[code |-> -32602, message |-> "failed to parse parameters"]>>

\* the line is a message that carries an id
CarriesID(line) == line.syntax = "object" /\ line.id[1] \notin {"null", "absent"}

\* the line is a JSON-RPC message: an object whose jsonrpc and method members,
\* where present, are strings
IsMessage(line) ==
    /\ line.syntax = "object"
    /\ line.jsonrpc[1] \in {"str", "null", "absent"}
    /\ line.method[1] \in {"str", "null", "absent"}

\* the line is empty or a notification, a message without id
EmptyOrNotification(line) ==
    \/ line.syntax = "empty"
    \/ IsMessage(line) /\ line.id[1] \in {"null", "absent"}

\* the responses written, from the j-th on, answer the lines read, from the
\* i-th on, in their order: one response with its id for a line that carries
\* an id, none for an empty line and for a notification; a line that is no
\* message at all may be answered without id
RECURSIVE Answers(_, _, _, _)
Answers(lines, i, responses, j) ==
    IF i > Len(lines) THEN j > Len(responses)
    ELSE IF EmptyOrNotification(lines[i]) THEN Answers(lines, i + 1, responses, j)
    ELSE IF CarriesID(lines[i])
    THEN /\ j <= Len(responses)
         /\ responses[j].id = <<lines[i].id>>
         /\ Answers(lines, i + 1, responses, j + 1)
    ELSE \/ Answers(lines, i + 1, responses, j)
         \/ /\ j <= Len(responses)
            /\ responses[j].id = <<>>
            /\ Answers(lines, i + 1, responses, j + 1)

\* C20: while every write succeeds, the responses written are, in the order
\* of the lines read, one response for each line that carries an id, with the
\* id of that line, and nothing for empty lines and notifications
C20_ResponsesInOrder ==
    pc \in {"running", "eof", "cancelled", "scanError"}
        => Answers(SubSeq(stdin, 1, read), 1, stdout, 1)

\* the rewrite a stage applies to the working text
ApplyStage(stage, text) ==
    CASE stage = "replaceQuotes"        -> replaceQuotes(text)
      [] stage = "fixUnquotedKeys"      -> fixUnquotedKeys(text)
      [] stage = "fixUnquotedValues"    -> fixUnquotedValues(text)
      [] stage = "removeTrailingCommas" -> removeTrailingCommas(text)
      [] stage = "balanceBrackets"      -> balanceBrackets(text)
      [] stage = "ellipsisRe"           -> StageEllipsis(text)
      [] stage = "arrayMissingCommaRe"  -> StageArrayCommas(text)

\* a step of repairJSON keeps to the order: the first stage follows the
\* assignment of src, each stage follows the one before it and rewrites its
\* output, and the strict-parse attempt follows the last stage; only when that
\* attempt fails does the call end in the last-resort handling
StagesFollow(order) ==
    /\ op = "src" => op' = order[1]
    /\ \A k \in 1..(Len(order) - 1) : op = order[k] => op' = order[k + 1]
    /\ op = order[Len(order)] => op' = "returned"
    /\ op' \in Range(order) => out'.text = ApplyStage(op', out.text)
    /\ op' = "returned" =>
        /\ Valid(out.text) => out' = Repaired(Compact(out.text), "stages")
        /\ ~Valid(out.text) => out'.path \in {"rebuilt", "fallback", "failed"}

\* C21 as stated: the stages run in the order quote normalization, unquoted-key
\* repair, unquoted-value repair, trailing-comma removal, ellipsis removal,
\* bracket balancing, array missing-comma repair, each on the output of the
\* one before, and one strict-parse attempt precedes the last-resort handling
C21_EllipsisBeforeBalancing ==
    [][StagesFollow(<<"replaceQuotes", "fixUnquotedKeys", "fixUnquotedValues",
                      "removeTrailingCommas", "ellipsisRe", "balanceBrackets",
                      "arrayMissingCommaRe">>)]_vars

\* C21 amended: the stages run in the order quote normalization, unquoted-key
\* repair, unquoted-value repair, trailing-comma removal, bracket balancing,
\* ellipsis removal, array missing-comma repair, each on the output of the one
\* before, and one strict-parse attempt precedes the last-resort handling
C21_BalancingBeforeEllipsis ==
    [][StagesFollow(<<"replaceQuotes", "fixUnquotedKeys", "fixUnquotedValues",
                      "removeTrailingCommas", "balanceBrackets", "ellipsisRe",
                      "arrayMissingCommaRe">>)]_vars

\* the object with unquoted keys has gone through every stage and parses
C21_Witness ==
    /\ op = "returned"
    /\ raw = ScenarioUnquotedKeys
    /\ out.path = "stages"
    /\ out.text = Compact(ScenarioValidObject)

\* the text has unbalanced braces or brackets
Unbalanced(text) ==
    \/ Count(text, "{") # Count(text, "}")
    \/ Count(text, "[") # Count(text, "]")

\* the flat object of the pairs found in the staged text is what the call returns
ReturnsRebuilt(rebuilt) == Valid(rebuilt) => out.err = "none" /\ out.text = Compact(rebuilt)

\* the staged text is one the reconstruction is for, and the call returns the
\* object rebuilt from its pairs
Reconstructs(staged) ==
    (~Valid(staged) /\ HasPrefix(staged, <<"{">>) /\ Unbalanced(staged))
        => ReturnsRebuilt(RebuildObject(keyValPatternRe(staged, 1)))

\* C22: when the text after the rewrite stages still fails strict parsing,
\* begins with "{" and has unbalanced braces or brackets, repairJSON returns the
\* flat object rebuilt from the "key": value pairs found in it, in their order
\* of appearance, when that object is valid JSON
C22_Reconstruction ==
    (op = "repairJSON" /\ ReachesStages(raw)) => Reconstructs(RepairStages(StagesInput(raw)))

\* the array of the elements es, separated by commas
CommaArray(es) == <<"[">> \o Join(es, <<",">>) \o <<"]">>

\* C23: for an array text whose elements (double-quoted strings without inner
\* quotes, or digit sequences) are separated only by white space, repairJSON
\* returns the array of those same elements, in their order, separated by commas
C23_ArrayCommasInserted ==
    op = "repairJSON" =>
        \A es \in ElementLists :
            raw = SpacedArray(es) => out.err = "none" /\ out.text = CommaArray(es)

\* the quote state after an unescaped double quote: it opens a double-quoted
\* string outside of any string and closes the one it is in
AfterDoubleQuote(state) ==
    IF state = "double" THEN "out" ELSE IF state = "out" THEN "double" ELSE state

\* the text with only its delimiting single quotes turned into double quotes:
\* state is "out", "single" or "double", escape tells that the character
\* follows an unescaped backslash
RECURSIVE DelimitersOnly(_, _, _, _)
DelimitersOnly(s, i, state, escape) ==
    IF i > Len(s) THEN <<>>
    ELSE IF escape THEN <<s[i]>> \o DelimitersOnly(s, i + 1, state, FALSE)
    ELSE IF s[i] = "\\" THEN <<s[i]>> \o DelimitersOnly(s, i + 1, state, TRUE)
    ELSE IF s[i] = "\"" THEN <<s[i]>> \o DelimitersOnly(s, i + 1, AfterDoubleQuote(state), FALSE)
    ELSE IF s[i] = "'" /\ state = "double"
    THEN <<s[i]>> \o DelimitersOnly(s, i + 1, state, FALSE)
    ELSE IF s[i] = "'"
    THEN <<"\"">> \o DelimitersOnly(s, i + 1, IF state = "single" THEN "out" ELSE "single", FALSE)
    ELSE <<s[i]>> \o DelimitersOnly(s, i + 1, state, FALSE)

\* C24: replaceQuotes turns into a double quote only the single quotes that
\* delimit a string; a single quote inside a double-quoted string and a quote
\* that follows an unescaped backslash are left unchanged and do not toggle the
\* in-string state; every other character is copied unchanged
C24_OnlyDelimiters ==
    op = "replaceQuotes" => out.text = DelimitersOnly(raw, 1, "out", FALSE)

\* the word is true, false or null in any case
IsLiteralWord(word) ==
    ToLower(word) \in {<<"t", "r", "u", "e">>, <<"f", "a", "l", "s", "e">>, <<"n", "u", "l", "l">>}

\* the bare value as the repair is to leave it: a literal in lower case, any
\* other word between double quotes
RepairedWord(word) ==
    IF IsLiteralWord(word) THEN ToLower(word) ELSE <<"\"">> \o word \o <<"\"">>

\* C25: a bare value after ":" and before a comma, a closing brace or the end
\* of the text stays unquoted, in lower case, exactly when it is true, false or
\* null in any case, whatever white space follows the colon; every other bare
\* identifier is wrapped in double quotes
C25_LiteralsStayBare ==
    op = "fixUnquotedValues" =>
        \A gap \in ValueGaps, word \in BareWords, tail \in ValueTails :
            raw = BareValueText(gap, word, tail)
                => out.text = BareValueText(gap, RepairedWord(word), tail)

\* the comma at position i is followed, after optional white space, by a
\* closing brace or bracket
TrailingCommaAt(text, i) ==
    /\ text[i] = ","
    /\ RunEnd(text, i + 1, RegexSpace) <= Len(text)
    /\ text[RunEnd(text, i + 1, RegexSpace)] \in {"}", "]"}

\* C26: the output of removeTrailingCommas holds no comma that is followed,
\* after optional white space, by a closing brace or bracket
C26_NoTrailingComma ==
    op = "removeTrailingCommas" => \A i \in 1..Len(out.text) : ~TrailingCommaAt(out.text, i)

\* the text is src followed by nothing but closers, one for each opener that
\* the scan of src leaves open, and each of them closes the opener that is
\* innermost when it is met: the scan of the whole text leaves nothing open
ClosedBehind(src, text) ==
    /\ HasPrefix(text, src)
    /\ Len(text) = Len(src) + Len(BracketStack(src, 1, <<>>))
    /\ \A i \in (Len(src) + 1)..Len(text) : text[i] \in {"}", "]"}
    /\ BracketStack(text, 1, <<>>) = <<>>

\* C27: balanceBrackets returns its input unchanged, followed by one matching
\* closer for each "{" or "[" still open at the end of the scan, the closers in
\* reverse order of their openers; with no opener left open the input is
\* returned unchanged
C27_ClosersAppended ==
    op = "balanceBrackets" => ClosedBehind(raw, out.text)

\* an open brace and an open bracket are closed innermost first
C27_Witness ==
    /\ op = "balanceBrackets"
    /\ raw = <<"{", "[">>
    /\ out.text = <<"{", "[", "]", "}">>

\* the text holds neither an opening brace nor an opening bracket
NoOpener(text) == \A i \in 1..Len(text) : text[i] \notin {"{", "["}

\* C28: for a raw input that holds neither "{" nor "[", every entry point
\* returns an error and the zero value, for every target type and every
\* Options value: a bare JSON scalar or string is never decoded
C28_ScalarsRefused ==
    (Returned /\ NoOpener(raw)) => out.err # "none" /\ out.val = Zero(T)

\* the JSON string "hello" decoded leniently into interface{} is refused
C28_Witness ==
    /\ op = "ToLenient"
    /\ T = "Any"
    /\ raw = <<"\"", "h", "e", "l", "l", "o", "\"">>
    /\ Valid(raw)
    /\ out.err = "emptyInput"
    /\ out.val = Zero("Any")

\* the text holds at least as many closers as openers of either kind
ClosersCoverOpeners(text) ==
    /\ Count(text, "}") >= Count(text, "{")
    /\ Count(text, "]") >= Count(text, "[")

\* the numbers of braces and brackets of two texts are the same
SameBracketCounts(a, b) == \A c \in {"{", "}", "[", "]"} : Count(a, c) = Count(b, c)

\* a step of repairJSON from the bracket balancing on: the balanced text has
\* closers for all its openers, the two stages after it keep the counts, and
\* the guard of the reconstruction is false when it is tested
GuardStaysFalse ==
    /\ op' = "balanceBrackets" => ClosersCoverOpeners(out'.text)
    /\ op' \in {"ellipsisRe", "arrayMissingCommaRe"} => SameBracketCounts(out.text, out'.text)
    /\ op' = "returned" => ~MoreOpenersThanClosers(out.text) /\ out'.path # "rebuilt"

\* C29: every text balanceBrackets produces holds at least as many "}" as "{"
\* and as many "]" as "[", the ellipsis removal and the array comma insertion
\* do not change these counts, and so the guard of the key/value reconstruction
\* is false whenever it is tested: the branch is never taken
C29_ReconstructionUnreachable == [][GuardStaysFalse]_vars

\* two open braces are closed by the balancing; the text is still not valid,
\* the guard is tested and false, and the call ends in the empty object
C29_Witness ==
    /\ op = "returned"
    /\ raw = <<"{", "{">>
    /\ ~Valid(RepairStages(StagesInput(raw)))
    /\ RepairStages(StagesInput(raw)) = <<"{", "{", "}", "}">>
    /\ out.path = "fallback"

\* StdioTransport.Start has returned
StartReturned == pc \in {"cancelled", "eof", "scanError", "writeError"}

\* the scanner goroutine has returned
ReaderReturned == scanner \in {"closed", "failed"}

\* C30: whenever Start returns, on cancellation, at the end of the input or on
\* a failed write, the scanner goroutine eventually returns too: it is not
\* left at the send on scanChan, from which Start receives no more
C30_ReaderTerminates == StartReturned ~> ReaderReturned

====
